---- MODULE Spec2Model ----
(***************************************************************************)
(* BehaviorNet runtime: token queues, net firing, action executor with     *)
(* retry/timeout state machine, ActionPlace routing and the controller     *)
(* tick.  Thirteen specifications share the state:                         *)
(*   Spec      - RuntimeController: inject_token, tick, start, stop and    *)
(*               the executor's cancel calls                               *)
(*   SpecExec  - ActionExecutor + one ActionPlace driven directly (poll)   *)
(*   SpecNet   - core::Net driven directly (addToken, lock, fire)          *)
(*   SpecQueue - one Place, its TokenQueues and its EntrypointPlace        *)
(*   SpecCalls - RuntimeController with the sequence of calls recorded     *)
(*   SpecWait  - one WaitWithTimeoutPlace driven directly                  *)
(*   SpecThrow - SpecExec's executor with invokers that throw              *)
(*   SpecThreads - RuntimeController with its loop thread, the mutex and   *)
(*               the tick taken step by step                               *)
(*   SpecExit  - ExitLoggerPlace driven directly (onTokenEnter, tick)      *)
(*   SpecReenter - SpecExec with a completion callback that calls back     *)
(*               into the executor                                         *)
(*   SpecLive  - SpecExec with one action, polled again and again          *)
(*   SpecBypass - RuntimeController on nets with an arc into wait::main    *)
(*   SpecRace  - start() and stop() called from two threads                *)
(***************************************************************************)
EXTENDS Integers, Sequences, FiniteSets, TLC

\* ---------------------------------------------------------------- bounds
MaxTokens == 3
MaxTicks == 3
MaxTime == 2
MaxRetries == 2
MaxFires == 3
MaxActions == 1
MaxCalls == 3
PoolSize == 2
MaxCapacity == 2
MaxTrace == 4
MaxWaiting == 2
MaxThreadTicks == 2
MaxInjected == 1

\* ------------------------------------------------------ program constants
DefaultPriority == 1
DefaultWeight == 1
FirstId == 1
DefaultRetryDelay == 1   \* one time unit of the model is 1000 ms
HighPriority == 5
UInt32Max == -1           \* 2^32 - 1 in the two's complement used for std::uint32_t

VARIABLES
    net,             \* loaded configuration: places and transitions
    queues,          \* (place, subplace) -> TokenQueue [queue_, nextId_]
    lastFiredEpoch,  \* per transition
    inFlight,        \* ActionExecutor::inFlight_ : ActionId -> context
    execNextId,      \* ActionExecutor::nextId_
    stats,           \* RuntimeStats: epoch, transitionsFired, tokensProcessed
    state,           \* RuntimeController::state_
    exitCount,       \* ExitLoggerPlace::exitCount_ per place
    exitLog,         \* history: per place, the tokens handed to ExitLoggerPlace::logger_
    injectedCount,   \* EntrypointPlace::injectedCount_ per place
    now,             \* steady_clock
    ticks,           \* history: number of ticks taken
    nextTok,         \* history: identity of the next token created by a caller
    accepted,        \* history: tokens accepted by inject + pool tokens
    alog,            \* history: per action id, what happened to it
    tickLog,         \* history: what the last tick did
    fireLog,         \* history: the last direct Net::fire call
    waiting,         \* WaitWithTimeoutPlace::waitingTokens_ per place: entry id -> deadline
    actionInvokers,  \* RuntimeController::actionInvokers_ : the names registered
    waitLog,         \* history: per token, what a WaitWithTimeoutPlace did with it
    calls,           \* history: the calls made so far, with what each returned
    thr              \* the threads: who holds RuntimeController::mutex_, where each
                     \* thread is in its call, the last call made without the mutex

vars == <<net, queues, lastFiredEpoch, inFlight, execNextId, stats, state, exitCount, exitLog,
          injectedCount, now, ticks, nextTok, accepted, alog, tickLog, fireLog,
          waiting, actionInvokers, waitLog, calls, thr>>

\* ------------------------------------------------------------ TokenQueue
Subplaces == {"None", "Main", "InExecution", "Success", "Failure", "Error"}
PlaceIds == {"entry", "mid", "act", "pool", "wait", "exit", "exit2"}
QKeys == PlaceIds \X Subplaces

EmptyQueue == [queue_ |-> <<>>, nextId_ |-> FirstId]

\* push that numbers the entry by the queue's length: the variant C13 is
\* checked against
push_ByLength(Q, tok) ==
    [queue_ |-> Append(Q.queue_, [id |-> Len(Q.queue_) + 1, token |-> tok, locked |-> FALSE]),
     nextId_ |-> Len(Q.queue_) + 2]

push(Q, tok) ==
    [queue_ |-> Append(Q.queue_, [id |-> Q.nextId_, token |-> tok, locked |-> FALSE]),
     nextId_ |-> Q.nextId_ + 1]

availableCount(Q) == Cardinality({i \in 1..Len(Q.queue_) : ~Q.queue_[i].locked})

size(Q) == Len(Q.queue_)

RemoveAt(s, i) == SubSeq(s, 1, i - 1) \o SubSeq(s, i + 1, Len(s))

\* pop that takes the front entry whether locked or not: the variant C12 is
\* checked against
pop_Front(Q) ==
    IF Len(Q.queue_) = 0
    THEN [has |-> FALSE, Q |-> Q, id |-> 0, token |-> 0]
    ELSE [has |-> TRUE, Q |-> [Q EXCEPT !.queue_ = Tail(Q.queue_)],
          id |-> Q.queue_[1].id, token |-> Q.queue_[1].token]

\* pop: the first entry that is not locked, or nothing
pop(Q) ==
    LET free == {i \in 1..Len(Q.queue_) : ~Q.queue_[i].locked}
    IN IF free = {}
       THEN [has |-> FALSE, Q |-> Q, id |-> 0, token |-> 0]
       ELSE LET i == CHOOSE k \in free : \A j \in free : k <= j
            IN [has |-> TRUE,
                Q |-> [Q EXCEPT !.queue_ = RemoveAt(Q.queue_, i)],
                id |-> Q.queue_[i].id, token |-> Q.queue_[i].token]

lock(Q, id) ==
    [Q EXCEPT !.queue_ = [i \in 1..Len(Q.queue_) |->
        IF Q.queue_[i].id = id THEN [Q.queue_[i] EXCEPT !.locked = TRUE] ELSE Q.queue_[i]]]

unlock(Q, id) ==
    [Q EXCEPT !.queue_ = [i \in 1..Len(Q.queue_) |->
        IF Q.queue_[i].id = id THEN [Q.queue_[i] EXCEPT !.locked = FALSE] ELSE Q.queue_[i]]]

\* positions of the entries that carry the id
IndexOf(Q, id) == {i \in 1..Len(Q.queue_) : Q.queue_[i].id = id}

\* remove: the first entry with the id, locked or not, or nothing
remove(Q, id) ==
    IF IndexOf(Q, id) = {}
    THEN [has |-> FALSE, Q |-> Q, token |-> 0]
    ELSE LET i == CHOOSE k \in IndexOf(Q, id) : \A j \in IndexOf(Q, id) : k <= j
         IN [has |-> TRUE, Q |-> [Q EXCEPT !.queue_ = RemoveAt(Q.queue_, i)],
             token |-> Q.queue_[i].token]

\* get: whether an entry with the id is in the queue, locked or not
get(Q, id) == IndexOf(Q, id) # {}

TokensOf(Q) == {Q.queue_[i].token : i \in 1..Len(Q.queue_)}

\* getAllTokens: the (id, data) pairs in queue order; a token's data is its identity
getAllTokens(Q) == [i \in 1..Len(Q.queue_) |-> <<Q.queue_[i].id, Q.queue_[i].token>>]

\* ------------------------------------------------------------------ Place
\* a place reference "id" or "id::suffix" is the pair (place, suffix)
parseSubplace(ref) ==
    [placeId |-> ref.place,
     sub |-> CASE ref.suffix = "main" -> "Main"
               [] ref.suffix = "in_execution" -> "InExecution"
               [] ref.suffix = "success" -> "Success"
               [] ref.suffix = "failure" -> "Failure"
               [] ref.suffix = "error" -> "Error"
               [] OTHER -> "None"]

resolvePlace(n, ref) ==
    LET p == parseSubplace(ref)
    IN [found |-> p.placeId \in DOMAIN n.places, placeId |-> p.placeId, sub |-> p.sub]

\* the queue an arc works on: the sub-queue when one is named and the place has
\* sub-queues, the main queue otherwise
QueueKey(n, r) ==
    IF r.sub # "None" /\ n.places[r.placeId].hasSubplaces
    THEN <<r.placeId, r.sub>>
    ELSE <<r.placeId, "None">>

tokenCount(n, qs, p) ==
    size(qs[<<p, "None">>]) +
    (IF n.places[p].hasSubplaces
     THEN size(qs[<<p, "Main">>]) + size(qs[<<p, "InExecution">>]) + size(qs[<<p, "Success">>])
          + size(qs[<<p, "Failure">>]) + size(qs[<<p, "Error">>])
     ELSE 0)

\* -------------------------------------------------------------------- Net
isEnabled(n, qs, t) ==
    \A i \in 1..Len(t.inputArcs) :
        LET r == resolvePlace(n, t.inputArcs[i])
        IN /\ r.found
           /\ availableCount(qs[QueueKey(n, r)]) >= t.inputArcs[i].weight

RECURSIVE PopN(_, _, _)
PopN(Q, k, got) ==
    IF k <= 0 THEN [ok |-> TRUE, Q |-> Q, got |-> got]
    ELSE LET r == pop(Q)
         IN IF ~r.has THEN [ok |-> FALSE, Q |-> Q, got |-> got]
            ELSE PopN(r.Q, k - 1, Append(got, r.token))

\* fire, first loop: consume weight tokens per input arc, in declaration order;
\* a failure returns at once and what was popped so far stays in the result
RECURSIVE ConsumeInputs(_, _, _, _, _)
ConsumeInputs(n, qs, arcs, i, consumed) ==
    IF i > Len(arcs) THEN [ok |-> TRUE, queues |-> qs, consumed |-> consumed]
    ELSE LET r == resolvePlace(n, arcs[i])
         IN IF ~r.found THEN [ok |-> FALSE, queues |-> qs, consumed |-> consumed]
            ELSE LET k == QueueKey(n, r)
                     p == PopN(qs[k], arcs[i].weight, <<>>)
                     qs2 == [qs EXCEPT ![k] = p.Q]
                 IN IF ~p.ok
                    THEN [ok |-> FALSE, queues |-> qs2, consumed |-> consumed \o p.got]
                    ELSE ConsumeInputs(n, qs2, arcs, i + 1, consumed \o p.got)

RECURSIVE PushN(_, _, _, _)
PushN(Q, toks, from, k) ==
    IF k <= 0 \/ from > Len(toks) THEN Q
    ELSE PushN(push(Q, toks[from]), toks, from + 1, k - 1)

Min(a, b) == IF a < b THEN a ELSE b
Max(a, b) == IF a > b THEN a ELSE b

\* fire, second loop: push the consumed tokens, weight per output arc
RECURSIVE ProduceOutputs(_, _, _, _, _, _)
ProduceOutputs(n, qs, arcs, j, consumed, tokenIdx) ==
    IF j > Len(arcs) THEN [ok |-> TRUE, queues |-> qs]
    ELSE LET r == resolvePlace(n, arcs[j])
         IN IF ~r.found THEN [ok |-> FALSE, queues |-> qs]
            ELSE LET k == QueueKey(n, r)
                     cnt == Min(Max(arcs[j].weight, 0), Len(consumed) - tokenIdx)
                     qs2 == [qs EXCEPT ![k] = PushN(qs[k], consumed, tokenIdx + 1, cnt)]
                 IN ProduceOutputs(n, qs2, arcs, j + 1, consumed, tokenIdx + cnt)

fire(n, qs, lfe, ti, epoch) ==
    LET t == n.transitions[ti]
    IN IF ~isEnabled(n, qs, t)
       THEN [success |-> FALSE, queues |-> qs, lastFiredEpoch |-> lfe, consumed |-> <<>>]
       ELSE LET c == ConsumeInputs(n, qs, t.inputArcs, 1, <<>>)
            IN IF ~c.ok
               THEN [success |-> FALSE, queues |-> c.queues, lastFiredEpoch |-> lfe,
                     consumed |-> c.consumed]
               ELSE LET o == ProduceOutputs(n, c.queues, t.outputArcs, 1, c.consumed, 0)
                    IN IF ~o.ok
                       THEN [success |-> FALSE, queues |-> o.queues, lastFiredEpoch |-> lfe,
                             consumed |-> c.consumed]
                       ELSE [success |-> TRUE, queues |-> o.queues,
                             lastFiredEpoch |-> [lfe EXCEPT ![ti] = epoch],
                             consumed |-> c.consumed]

\* ---------------------------------------------------------- ActionContext
\* std::uint32_t values are held in two's complement: 0..2^31-1 as themselves,
\* 2^31..2^32-1 as the negative numbers -2^31..-1 (so 2^32-1 is -1)
U32Inc(x) == IF x = -1 THEN 0 ELSE IF x = 2147483647 THEN (-2147483647) - 1 ELSE x + 1
U32Geq(a, b) == IF (a >= 0) = (b >= 0) THEN a >= b ELSE a < 0

Results == {"Success", "Failure", "InProgress", "Error"}
DefaultResult == [status |-> "Success", message |-> ""]
InvokerResult(st) == [status |-> st, message |-> IF st = "Error" THEN "boom" ELSE ""]
TimedOutResult == [status |-> "Error", message |-> "Action timed out"]

NewContext(id, place, tok, policy, hasInvoker) ==
    [id |-> id, place |-> place, token |-> tok, policy |-> policy, hasInvoker |-> hasInvoker,
     state |-> "Pending", lastResult |-> DefaultResult, attemptCount |-> 0,
     startTime |-> 0, retryTime |-> 0, callbackInvoked |-> FALSE,
     invocations |-> 0]   \* history: calls of the invoker made for this context

\* isTimedOut that never reports a timeout: the variant C37 is checked against
isTimedOut_Never(ctx, t) == FALSE

isTimedOut(ctx, t) == ctx.state = "Running" /\ t - ctx.startTime >= ctx.policy.timeout

\* canRetry with > in place of >=: the variant C4 is checked against
canRetry_OneMore(ctx) ==
    IF U32Geq(ctx.attemptCount, U32Inc(U32Inc(ctx.policy.maxRetries))) THEN FALSE
    ELSE IF ctx.state = "Error" /\ ctx.policy.retryOnError THEN TRUE
    ELSE IF ctx.state = "Failed" /\ ctx.policy.retryOnFailure THEN TRUE
    ELSE FALSE

canRetry(ctx) ==
    IF U32Geq(ctx.attemptCount, U32Inc(ctx.policy.maxRetries)) THEN FALSE
    ELSE IF ctx.state = "Error" /\ ctx.policy.retryOnError THEN TRUE
    ELSE IF ctx.state = "Failed" /\ ctx.policy.retryOnFailure THEN TRUE
    ELSE FALSE

start(ctx, t) ==
    [ctx EXCEPT !.state = "Running", !.startTime = t, !.attemptCount = U32Inc(@)]

update(ctx, result) ==
    [ctx EXCEPT !.lastResult = result,
                !.state = CASE result.status = "Success" -> "Completed"
                            [] result.status = "Failure" -> "Failed"
                            [] result.status = "Error" -> "Error"
                            [] OTHER -> @]

\* scheduleRetry that forgets the delay: the variant C30 is checked against
scheduleRetry_NoDelay(ctx, t) ==
    [ctx EXCEPT !.state = "Pending", !.retryTime = t]

scheduleRetry(ctx, t) ==
    [ctx EXCEPT !.state = "Pending", !.retryTime = t + ctx.policy.retryDelay]

isReadyForRetry(ctx, t) == ctx.state = "Pending" /\ t >= ctx.retryTime

\* cancel that also records an error as the last result: the variant C31 is
\* checked against
cancel_AsError(ctx) ==
    [ctx EXCEPT !.state = "Cancelled", !.lastResult = [status |-> "Error", message |-> "cancelled"]]

cancel(ctx) == [ctx EXCEPT !.state = "Cancelled"]

\* --------------------------------------------------------- ActionExecutor
\* the invoker call and the fold of its result, shared by both branches
InvokeAndFold(ctx, st, t) ==
    LET c == update([ctx EXCEPT !.invocations = @ + 1], InvokerResult(st))
    IN IF c.state \in {"Failed", "Error"} /\ canRetry(c) THEN scheduleRetry(c, t) ELSE c

\* whether processAction calls the invoker on this context at time t
InvokerCalled(ctx, t) ==
    /\ ctx.hasInvoker
    /\ \/ ctx.state = "Pending" /\ (isReadyForRetry(ctx, t) \/ ctx.attemptCount = 0)
       \/ ctx.state = "Running" /\ ~isTimedOut(ctx, t)

\* processAction that starts a pending context without calling its invoker in
\* the same poll: the variant C8 is checked against
processAction_StartOnly(ctx, st, t) ==
    CASE ctx.state = "Pending" ->
            IF isReadyForRetry(ctx, t) \/ ctx.attemptCount = 0 THEN start(ctx, t) ELSE ctx
      [] ctx.state = "Running" ->
            IF isTimedOut(ctx, t)
            THEN LET c == update(ctx, TimedOutResult)
                 IN IF canRetry(c) THEN scheduleRetry(c, t) ELSE c
            ELSE IF ctx.hasInvoker THEN InvokeAndFold(ctx, st, t) ELSE ctx
      [] OTHER -> ctx

processAction(ctx, st, t) ==
    CASE ctx.state = "Pending" ->
            IF isReadyForRetry(ctx, t) \/ ctx.attemptCount = 0
            THEN IF ctx.hasInvoker THEN InvokeAndFold(start(ctx, t), st, t) ELSE start(ctx, t)
            ELSE ctx
      [] ctx.state = "Running" ->
            IF isTimedOut(ctx, t)
            THEN LET c == update(ctx, TimedOutResult)
                 IN IF canRetry(c) THEN scheduleRetry(c, t) ELSE c
            ELSE IF ctx.hasInvoker THEN InvokeAndFold(ctx, st, t) ELSE ctx
      [] OTHER -> ctx

\* poll's test for a context that is finished and leaves the executor
IsFinal(ctx) ==
    \/ ctx.state \in {"Completed", "Cancelled", "TimedOut"}
    \/ ctx.state \in {"Failed", "Error"} /\ ~canRetry(ctx)

\* ------------------------------------------------------------ ActionPlace
\* onActionComplete with the Failure and Error cases exchanged: the variant C6
\* is checked against
ResultSubplace_Exchanged(result) ==
    CASE result.status = "Success" -> "Success"
      [] result.status = "Failure" -> "Error"
      [] result.status = "Error" -> "Failure"
      [] OTHER -> "Error"

ResultSubplace(result) ==
    CASE result.status = "Success" -> "Success"
      [] result.status = "Failure" -> "Failure"
      [] result.status = "Error" -> "Error"
      [] OTHER -> "Error"

\* X is the part of the state the executor and the place behaviours work on:
\* [queues, inFlight, execNextId, exitCount, exitLog, alog, waiting, waitLog] and the
\* clock reading now
onActionComplete(X, place, id, result, tok) ==
    LET sub == ResultSubplace(result)
    IN [X EXCEPT !.queues[<<place, sub>>] = push(@, tok),
                 !.alog[id].routed = Append(@, sub)]

invokeCallback(X, id) ==
    LET ctx == X.inFlight[id]
    IN IF ctx.callbackInvoked THEN X
       ELSE LET X1 == [X EXCEPT !.inFlight[id].callbackInvoked = TRUE,
                                !.alog[id].callbacks = @ + 1,
                                !.alog[id].result = ctx.lastResult.status,
                                !.alog[id].finalState = ctx.state]
            IN onActionComplete(X1, ctx.place, id, ctx.lastResult, ctx.token)

\* poll without the erase of a completed context: the variant C3 is checked
\* against
Erase_Keep(f, id) == f

Erase(f, id) == [k \in (DOMAIN f) \ {id} |-> f[k]]

\* poll, first loop: step every in-flight context, collect the finished ones
RECURSIVE PollProcess(_, _, _, _, _, _)
PollProcess(X, order, i, res, t, completed) ==
    IF i > Len(order) THEN [X |-> X, completed |-> completed]
    ELSE LET id == order[i]
             ctx == X.inFlight[id]
             c2 == processAction(ctx, res[id], t)
             called == c2.invocations # ctx.invocations
             X2 == [X EXCEPT !.inFlight[id] = c2,
                             !.alog[id].calls = IF called THEN @ + 1 ELSE @,
                             !.alog[id].finished =
                                 IF called /\ res[id] # "InProgress" THEN @ + 1 ELSE @,
                             !.alog[id].onlyError = IF called THEN @ /\ res[id] = "Error" ELSE @,
                             !.alog[id].attempts = c2.attemptCount]
         IN PollProcess(X2, order, i + 1, res, t,
                        IF IsFinal(c2) THEN Append(completed, id) ELSE completed)

\* poll, second loop: callback, then removal
RECURSIVE PollComplete(_, _, _)
PollComplete(X, completed, i) ==
    IF i > Len(completed) THEN X
    ELSE LET id == completed[i]
             X1 == IF id \in DOMAIN X.inFlight
                   THEN LET Y == invokeCallback(X, id)
                        IN [Y EXCEPT !.inFlight = Erase(@, id)]
                   ELSE X
         IN PollComplete(X1, completed, i + 1)

poll(X, order, res, t) ==
    LET p == PollProcess(X, order, 1, res, t, <<>>)
    IN PollComplete(p.X, p.completed, 1)

startAction(X, place, tok, policy, hasInvoker) ==
    [X EXCEPT !.inFlight = [k \in (DOMAIN @) \cup {X.execNextId} |->
                              IF k = X.execNextId
                              THEN NewContext(X.execNextId, place, tok, policy, hasInvoker)
                              ELSE @[k]],
              !.execNextId = @ + 1,
              !.alog[X.execNextId] = [@ EXCEPT !.token = tok, !.started = TRUE]]

\* ActionPlace::onTokenEnter
ActionOnTokenEnter(X, n, place, tok) ==
    IF ~n.places[place].hasInvoker
    THEN [X EXCEPT !.queues[<<place, "Error">>] = push(@, tok)]
    ELSE startAction(X, place, tok, n.places[place].policy, TRUE)

\* the results the invokers return in one poll: one per context whose invoker
\* is called (the entry of a context that is not called is never read)
PollResults(inf, t) ==
    {res \in [DOMAIN inf -> Results] :
        \A id \in DOMAIN inf : ~InvokerCalled(inf[id], t) => res[id] = "Success"}

\* iteration orders of an unordered_map over the ids in S
Orders(S) ==
    {o \in [1..Cardinality(S) -> S] : \A i, j \in 1..Cardinality(S) : i # j => o[i] # o[j]}

\* ------------------------------------------------------- state packaging
CurX == [now |-> now, queues |-> queues, inFlight |-> inFlight, execNextId |-> execNextId,
         exitCount |-> exitCount, exitLog |-> exitLog, alog |-> alog,
         waiting |-> waiting, waitLog |-> waitLog]

SetX(X) ==
    /\ queues' = X.queues
    /\ inFlight' = X.inFlight
    /\ execNextId' = X.execNextId
    /\ exitCount' = X.exitCount
    /\ exitLog' = X.exitLog
    /\ alog' = X.alog
    /\ waiting' = X.waiting
    /\ waitLog' = X.waitLog

ActionIds == 1..MaxTokens
TokenIds == 1..MaxTokens

EmptyWaitLog ==
    [entered |-> FALSE, deadline |-> 0, ticked |-> FALSE, lastTickAt |-> 0, lastCond |-> FALSE,
     movedTo |-> <<>>, movedAt |-> 0, callbacks |-> 0]

EmptyLog ==
    [token |-> 0, started |-> FALSE, calls |-> 0, finished |-> 0, onlyError |-> TRUE, attempts |-> 0,
     callbacks |-> 0, result |-> "none", finalState |-> "none", routed |-> <<>>,
     cancelledIn |-> "no"]

EmptyTickLog ==
    [fired |-> <<>>, contested |-> {}, eligible |-> {}, starved |-> {}, misordered |-> {}]

EmptyFireLog == [count |-> 0, ti |-> 0, success |-> FALSE, enabled |-> FALSE,
                 before |-> <<>>, lfeBefore |-> <<>>]

\* retry policies; those that differ only in a field that is never read (the
\* delay when no retry comes about, the retry count when neither retry flag is
\* set) are represented once
Policies ==
    {p \in [maxRetries : (0..MaxRetries) \cup {UInt32Max}, timeout : {1, MaxTime + 1}, retryDelay : {0, 1},
            retryOnError : BOOLEAN, retryOnFailure : BOOLEAN] :
        /\ p.maxRetries \in {0, UInt32Max} => p.retryDelay = 0
        /\ (~p.retryOnError /\ ~p.retryOnFailure) => p.maxRetries = 0}

NoPolicy == [maxRetries |-> 0, timeout |-> 1, retryDelay |-> 0,
             retryOnError |-> FALSE, retryOnFailure |-> FALSE]

\* std::optional<std::size_t> capacity_ without a value
NoCapacity == -1

\* the action_id the action places of the configurations refer to
ActionName == "user::my_action"

\* a place and its behaviour as createPlaceType builds them: no capacity, no
\* wait condition, no timeout callback
PlaceCfg(type, hasInvoker, policy, poolSize) ==
    [type |-> type, hasSubplaces |-> type \in {"action", "wait_with_timeout"},
     hasInvoker |-> hasInvoker, policy |-> policy, poolSize |-> poolSize,
     actionId |-> IF type = "action" THEN ActionName ELSE "",
     capacity |-> NoCapacity, hasValidator |-> FALSE,
     waitTimeout |-> 0, hasCondition |-> FALSE, hasTimeoutCallback |-> FALSE]

\* the threads of SpecThreads: the loop thread of start(), the thread that
\* calls start() and stop(), the thread that calls the other operations
Threads == {"loop", "owner", "client"}
Callers == {"client"}
Tickers == {"loop"} \cup Callers

\* no call made yet
NoObs == [op |-> "none", phase |-> "none", epoch |-> 0, transitionsFired |-> 0]

\* a controller just constructed: the mutex free, no loop thread, no call
\* under way
InitThr == [mutex |-> "none",
            pc |-> [h \in Threads |-> IF h = "loop" THEN "none" ELSE "idle"],
            obs |-> NoObs]

\* Place::setCapacity
setCapacity(cfg, cap) == [cfg EXCEPT !.capacity = cap]

InitCommon(n) ==
    /\ net = n
    /\ lastFiredEpoch = [i \in 1..Len(n.transitions) |-> 0]
    /\ inFlight = <<>>
    /\ execNextId = FirstId
    /\ stats = [epoch |-> 0, transitionsFired |-> 0, tokensProcessed |-> 0]
    /\ state = "Stopped"
    /\ ticks = 0
    /\ exitCount = [p \in PlaceIds |-> 0]
    /\ exitLog = [p \in PlaceIds |-> <<>>]
    /\ injectedCount = [p \in PlaceIds |-> 0]
    /\ now = 0
    /\ alog = [id \in ActionIds |-> EmptyLog]
    /\ tickLog = EmptyTickLog
    /\ fireLog = EmptyFireLog
    /\ waiting = [p \in PlaceIds |-> {}]
    /\ actionInvokers = {n.places[p].actionId : p \in {q \in DOMAIN n.places : n.places[q].hasInvoker}}
    /\ waitLog = [tok \in TokenIds |-> EmptyWaitLog]
    /\ calls = <<>>
    /\ thr = InitThr

\* the state a context is in when cancel reaches it
CancelKind(ctx) ==
    CASE ctx.state = "Pending" /\ ctx.attemptCount = 0 -> "NeverPolled"
      [] ctx.state = "Pending" -> "PendingRetry"
      [] OTHER -> ctx.state

NoteCancel(lg, ctx) == IF lg.cancelledIn = "no" THEN [lg EXCEPT !.cancelledIn = CancelKind(ctx)] ELSE lg

\* ActionExecutor::cancel / cancelAll, with the history of SpecExec
ExecCancel(id) ==
    /\ IF id \in DOMAIN inFlight
       THEN /\ inFlight' = [inFlight EXCEPT ![id] = cancel(@)]
            /\ alog' = [alog EXCEPT ![id] = NoteCancel(@, inFlight[id])]
       ELSE UNCHANGED <<inFlight, alog>>
    /\ UNCHANGED <<net, state, ticks, queues, lastFiredEpoch, execNextId, stats, exitCount, exitLog,
                   injectedCount, now, nextTok, accepted, tickLog, fireLog,
                   waiting, actionInvokers, thr, waitLog, calls>>

ExecCancelAll ==
    /\ inFlight' = [id \in DOMAIN inFlight |-> cancel(inFlight[id])]
    /\ alog' = [id \in ActionIds |->
                  IF id \in DOMAIN inFlight THEN NoteCancel(alog[id], inFlight[id]) ELSE alog[id]]
    /\ UNCHANGED <<net, state, ticks, queues, lastFiredEpoch, execNextId, stats, exitCount, exitLog,
                   injectedCount, now, nextTok, accepted, tickLog, fireLog,
                   waiting, actionInvokers, thr, waitLog, calls>>

\* the per-action history is not kept under Spec
ForgetCalls(inf) == [id \in DOMAIN inf |-> [inf[id] EXCEPT !.invocations = 0]]

\* cancel / cancelAll made through RuntimeController::executor()
Cancel(id) ==
    /\ inFlight' = IF id \in DOMAIN inFlight THEN [inFlight EXCEPT ![id] = cancel(@)]
                   ELSE inFlight
    /\ UNCHANGED <<net, state, ticks, queues, lastFiredEpoch, execNextId, stats, exitCount, exitLog,
                   injectedCount, now, nextTok, accepted, alog, tickLog, fireLog,
                   waiting, actionInvokers, thr, waitLog, calls>>

CancelAll ==
    /\ inFlight' = [id \in DOMAIN inFlight |-> cancel(inFlight[id])]
    /\ UNCHANGED <<net, state, ticks, queues, lastFiredEpoch, execNextId, stats, exitCount, exitLog,
                   injectedCount, now, nextTok, accepted, alog, tickLog, fireLog,
                   waiting, actionInvokers, thr, waitLog, calls>>

\* the next clock reading at which a context behaves differently: the end of
\* its timeout while Running, its retry time while Pending (0: none)
Deadline(ctx) ==
    CASE ctx.state = "Running" -> ctx.startTime + ctx.policy.timeout
      [] ctx.state = "Pending" /\ ctx.attemptCount # 0 -> ctx.retryTime
      [] OTHER -> 0

\* time passes; only contexts read the clock and only differences of readings
\* matter, so the clock is moved only towards a deadline that is within MaxTime
AdvanceClock ==
    /\ now < MaxTime
    /\ \/ \E id \in DOMAIN inFlight :
             Deadline(inFlight[id]) > now /\ Deadline(inFlight[id]) <= MaxTime
       \/ \E p \in PlaceIds : \E e \in waiting[p] : e.deadline > now /\ e.deadline <= MaxTime
    /\ now' = now + 1
    /\ UNCHANGED <<net, state, ticks, queues, lastFiredEpoch, inFlight, execNextId, stats,
                   exitCount, exitLog, injectedCount, nextTok, accepted, alog, tickLog, fireLog,
                   waiting, actionInvokers, thr, waitLog, calls>>

\* ------------------------------------- SpecExec: executor + one ActionPlace
ExecNet(policy, hasInvoker) ==
    [places |-> [p \in {"act"} |-> PlaceCfg("action", hasInvoker, policy, 0)],
     transitions |-> <<>>]

InitExec ==
    /\ \E policy \in Policies, hasInvoker \in BOOLEAN : InitCommon(ExecNet(policy, hasInvoker))
    /\ queues = [k \in QKeys |-> EmptyQueue]
    /\ nextTok = 1
    /\ accepted = {}

\* a caller hands a token to ActionPlace::onTokenEnter
ExecTokenEnter ==
    /\ nextTok <= MaxActions
    /\ SetX(ActionOnTokenEnter(CurX, net, "act", nextTok))
    /\ nextTok' = nextTok + 1
    /\ UNCHANGED <<net, state, ticks, lastFiredEpoch, stats, injectedCount, now, accepted, tickLog, fireLog,
                   actionInvokers, thr, calls>>

\* ActionExecutor::poll, the invoker results being the environment's choice
ExecPoll ==
    /\ \A id \in DOMAIN inFlight : alog[id].calls < MaxCalls
    /\ \E order \in Orders(DOMAIN inFlight), res \in PollResults(inFlight, now) :
           SetX(poll(CurX, order, res, now))
    /\ UNCHANGED <<net, state, ticks, lastFiredEpoch, stats, injectedCount, now, nextTok, accepted,
                   tickLog, fireLog,
                   actionInvokers, thr, calls>>

NextExec ==
    \/ ExecTokenEnter
    \/ ExecPoll
    \/ \E id \in 1..MaxActions : ExecCancel(id)
    \/ ExecCancelAll
    \/ AdvanceClock

SpecExec == InitExec /\ [][NextExec]_vars

\* ---------------------------- SpecThrow: SpecExec with invokers that throw
\* poll in which the invoker of the k-th context of the iteration throws: the
\* contexts before it are stepped, the k-th has been started if it was Pending
\* and its invoker has been called, update is not reached; the exception leaves
\* processAction and poll (there is no handler), so the later contexts are not
\* stepped and the completion loop does not run
pollThrows(X, order, res, t, k) ==
    LET p == PollProcess(X, SubSeq(order, 1, k - 1), 1, res, t, <<>>)
        id == order[k]
        ctx == p.X.inFlight[id]
        c1 == IF ctx.state = "Pending" THEN start(ctx, t) ELSE ctx
        c2 == [c1 EXCEPT !.invocations = @ + 1]
    IN [p.X EXCEPT !.inFlight[id] = c2,
                   !.alog[id].calls = @ + 1,
                   !.alog[id].attempts = c2.attemptCount]

\* ActionExecutor::poll that an invoker leaves by an exception; calls keeps the
\* way the last such poll ended
ExecPollThrows ==
    /\ \A id \in DOMAIN inFlight : alog[id].calls < MaxCalls
    /\ \E order \in Orders(DOMAIN inFlight), res \in PollResults(inFlight, now) :
         \E k \in 1..Len(order) :
           /\ InvokerCalled(inFlight[order[k]], now)
           /\ \A i \in k..Len(order) : res[order[i]] = "Success"
           /\ SetX(pollThrows(CurX, order, res, now, k))
           /\ calls' = <<[op |-> "poll", ret |-> "threw", id |-> order[k]]>>
    /\ UNCHANGED <<net, state, ticks, lastFiredEpoch, stats, injectedCount, now, nextTok, accepted,
                   tickLog, fireLog, actionInvokers, thr>>

NextThrow ==
    \/ ExecTokenEnter
    \/ ExecPoll
    \/ ExecPollThrows
    \/ AdvanceClock

SpecThrow == InitExec /\ [][NextThrow]_vars

\* ------------------------------------------------------- place behaviours
\* PlaceType::onTokenEnter, by the type of the place the token is handed to;
\* the token is passed by value: a behaviour that stores it nowhere destroys it
\* ---------------------------------------------------- WaitWithTimeoutPlace
WaitIds(w, p) == {e.id : e \in w[p]}
WaitEntry(w, p, id) == CHOOSE e \in w[p] : e.id = id
TokenAt(Q, id) == Q.queue_[CHOOSE i \in IndexOf(Q, id) : TRUE].token

\* onTokenEnter: push to the main sub-queue, record the deadline under the id
WaitOnTokenEnter(X, n, p, tok) ==
    LET id == X.queues[<<p, "Main">>].nextId_
        deadline == X.now + n.places[p].waitTimeout
    IN [X EXCEPT !.queues[<<p, "Main">>] = push(@, tok),
                 !.waiting[p] = {e \in @ : e.id # id} \cup {[id |-> id, deadline |-> deadline]},
                 !.waitLog[tok] = [@ EXCEPT !.entered = TRUE, !.deadline = deadline]]

\* a tick that looks at the deadline before it asks the condition: the variant
\* C17 is checked against
RECURSIVE WaitTick_DeadlineFirst(_, _, _, _, _, _)
WaitTick_DeadlineFirst(X, n, p, order, i, cond) ==
    IF i > Len(order) THEN X
    ELSE LET id == order[i]
             main == X.queues[<<p, "Main">>]
             forget == {e \in X.waiting[p] : e.id # id}
         IN IF ~get(main, id)
            THEN WaitTick_DeadlineFirst([X EXCEPT !.waiting[p] = forget], n, p, order, i + 1, cond)
            ELSE LET tok == TokenAt(main, id)
                     met == n.places[p].hasCondition /\ cond[id]
                     r == remove(main, id)
                     X0 == [X EXCEPT !.waitLog[tok] = [@ EXCEPT !.ticked = TRUE,
                                                                !.lastTickAt = X.now,
                                                                !.lastCond = met]]
                     X1 == IF X.now >= WaitEntry(X.waiting, p, id).deadline
                           THEN [X0 EXCEPT !.queues[<<p, "Main">>] = r.Q,
                                           !.queues[<<p, "Failure">>] = push(@, r.token),
                                           !.waiting[p] = forget,
                                           !.waitLog[tok].movedTo = Append(@, "Failure"),
                                           !.waitLog[tok].movedAt = X.now,
                                           !.waitLog[tok].callbacks =
                                               IF n.places[p].hasTimeoutCallback THEN @ + 1 ELSE @]
                           ELSE IF met
                           THEN [X0 EXCEPT !.queues[<<p, "Main">>] = r.Q,
                                           !.queues[<<p, "Success">>] = push(@, r.token),
                                           !.waiting[p] = forget,
                                           !.waitLog[tok].movedTo = Append(@, "Success"),
                                           !.waitLog[tok].movedAt = X.now]
                           ELSE X0
                 IN WaitTick_DeadlineFirst(X1, n, p, order, i + 1, cond)

\* tick: the waiting entries in the order the map yields them; cond[id] is what
\* the condition returns on the token of entry id when a condition is set
RECURSIVE WaitTick(_, _, _, _, _, _)
WaitTick(X, n, p, order, i, cond) ==
    IF i > Len(order) THEN X
    ELSE LET id == order[i]
             main == X.queues[<<p, "Main">>]
             forget == {e \in X.waiting[p] : e.id # id}
         IN IF ~get(main, id)
            THEN WaitTick([X EXCEPT !.waiting[p] = forget], n, p, order, i + 1, cond)
            ELSE LET tok == TokenAt(main, id)
                     met == n.places[p].hasCondition /\ cond[id]
                     r == remove(main, id)
                     X0 == [X EXCEPT !.waitLog[tok] = [@ EXCEPT !.ticked = TRUE,
                                                                !.lastTickAt = X.now,
                                                                !.lastCond = met]]
                     X1 == IF met
                           THEN [X0 EXCEPT !.queues[<<p, "Main">>] = r.Q,
                                           !.queues[<<p, "Success">>] = push(@, r.token),
                                           !.waiting[p] = forget,
                                           !.waitLog[tok].movedTo = Append(@, "Success"),
                                           !.waitLog[tok].movedAt = X.now]
                           ELSE IF X.now >= WaitEntry(X.waiting, p, id).deadline
                           THEN [X0 EXCEPT !.queues[<<p, "Main">>] = r.Q,
                                           !.queues[<<p, "Failure">>] = push(@, r.token),
                                           !.waiting[p] = forget,
                                           !.waitLog[tok].movedTo = Append(@, "Failure"),
                                           !.waitLog[tok].movedAt = X.now,
                                           !.waitLog[tok].callbacks =
                                               IF n.places[p].hasTimeoutCallback THEN @ + 1 ELSE @]
                           ELSE X0
                 IN WaitTick(X1, n, p, order, i + 1, cond)

\* the part of a map iteration order that concerns place p
OrderAt(o, w, p) == SelectSeq(o, LAMBDA id : id \in WaitIds(w, p))

\* the ids of all waiting entries and the orders a map can yield them in
AllWaitIds(w) == UNION {WaitIds(w, p) : p \in PlaceIds}
WaitOrders(w) == Orders(AllWaitIds(w))

\* onTokenEnter whose exit logger also keeps the token in the place: the
\* variant C33 is checked against
onTokenEnter_Stores(X, n, p, tok) ==
    CASE n.places[p].type = "exit_logger" ->
            [X EXCEPT !.exitCount[p] = @ + 1, !.exitLog[p] = Append(@, tok),
                      !.queues[<<p, "None">>] = push(@, tok)]
      [] n.places[p].type = "action" -> ActionOnTokenEnter(X, n, p, tok)
      [] n.places[p].type = "wait_with_timeout" -> WaitOnTokenEnter(X, n, p, tok)
      [] OTHER -> X

onTokenEnter(X, n, p, tok) ==
    CASE n.places[p].type = "exit_logger" ->
            [X EXCEPT !.exitCount[p] = @ + 1, !.exitLog[p] = Append(@, tok)]
      [] n.places[p].type = "action" -> ActionOnTokenEnter(X, n, p, tok)
      [] n.places[p].type = "wait_with_timeout" -> WaitOnTokenEnter(X, n, p, tok)
      [] OTHER -> X   \* PlainPlace, EntrypointPlace, ResourcePoolPlace: empty body

\* ExitLoggerPlace::tick drains the unlocked tokens of the main queue
RECURSIVE ExitTick(_, _)
ExitTick(X, p) ==
    LET r == pop(X.queues[<<p, "None">>])
    IN IF ~r.has THEN X
       ELSE ExitTick([X EXCEPT !.queues[<<p, "None">>] = r.Q, !.exitCount[p] = @ + 1,
                               !.exitLog[p] = Append(@, r.token)], p)

PlaceSeq(n) ==
    LET ps == DOMAIN n.places
    IN CHOOSE o \in Orders(ps) : TRUE

\* processPlaceTypes: every behaviour's tick; each works on its own place only;
\* wo is the order the waiting entries are visited in (no condition is set on a
\* place the controller built)
RECURSIVE processPlaceTypes(_, _, _, _, _)
processPlaceTypes(X, n, ps, i, wo) ==
    IF i > Len(ps) THEN X
    ELSE processPlaceTypes(
            CASE n.places[ps[i]].type = "exit_logger" -> ExitTick(X, ps[i])
              [] n.places[ps[i]].type = "wait_with_timeout" ->
                    WaitTick(X, n, ps[i], OrderAt(wo, X.waiting, ps[i]), 1,
                             [id \in WaitIds(X.waiting, ps[i]) |-> FALSE])
              [] OTHER -> X,
            n, ps, i + 1, wo)

\* the while loop of processNewTokensAtPlaces for one main-queue destination
RECURSIVE DrainMain(_, _, _)
DrainMain(X, n, p) ==
    LET r == pop(X.queues[<<p, "None">>])
    IN IF ~r.has THEN X
       ELSE DrainMain(onTokenEnter([X EXCEPT !.queues[<<p, "None">>] = r.Q], n, p, r.token), n, p)

RECURSIVE processNewTokensAtPlaces(_, _, _, _)
processNewTokensAtPlaces(X, n, places, i) ==
    IF i > Len(places) THEN X
    ELSE processNewTokensAtPlaces(
            IF places[i].sub = "None" THEN DrainMain(X, n, places[i].placeId) ELSE X,
            n, places, i + 1)

\* the output places noted before firing: those of the arcs whose place resolves
RECURSIVE OutputPlaces(_, _, _)
OutputPlaces(n, arcs, i) ==
    IF i > Len(arcs) THEN <<>>
    ELSE LET r == resolvePlace(n, arcs[i])
         IN (IF r.found THEN <<[placeId |-> r.placeId, sub |-> r.sub]>> ELSE <<>>)
            \o OutputPlaces(n, arcs, i + 1)

\* ------------------------------------------------- getTransitionsByPriority
\* the comparator handed to std::sort
\* the comparator with the priorities compared the other way round: the
\* variant C9 is checked against
SortsBefore_Ascending(n, lfe, a, b) ==
    IF n.transitions[a].priority # n.transitions[b].priority
    THEN n.transitions[a].priority < n.transitions[b].priority
    ELSE lfe[a] < lfe[b]

SortsBefore(n, lfe, a, b) ==
    IF n.transitions[a].priority # n.transitions[b].priority
    THEN n.transitions[a].priority > n.transitions[b].priority
    ELSE lfe[a] < lfe[b]

\* std::sort is not stable and starts from an unordered_map's order: any
\* permutation that the comparator accepts as sorted can come out
getTransitionsByPriority(n, lfe) ==
    {o \in Orders(1..Len(n.transitions)) :
        \A i, j \in 1..Len(n.transitions) : i < j => ~SortsBefore(n, lfe, o[j], o[i])}

\* ------------------------------------------------------ processTransitions
\* T = [X, lfe, fired, transitionsFired]; fired lists the successful fires,
\* each of which is followed by the call of the onTransitionFired_ slot with
\* the transition's id and the epoch
\* processTransitions that stays on a transition for as long as it is enabled:
\* the variant C32 is checked against
RECURSIVE processTransitions_WhileEnabled(_, _, _, _, _)
processTransitions_WhileEnabled(T, n, order, i, epoch) ==
    IF i > Len(order) THEN T
    ELSE LET ti == order[i]
             t == n.transitions[ti]
         IN IF ~isEnabled(n, T.X.queues, t)
            THEN processTransitions_WhileEnabled(T, n, order, i + 1, epoch)
            ELSE LET outs == OutputPlaces(n, t.outputArcs, 1)
                     r == fire(n, T.X.queues, T.lfe, ti, epoch)
                     X1 == [T.X EXCEPT !.queues = r.queues]
                 IN IF r.success
                    THEN processTransitions_WhileEnabled(
                            [X |-> processNewTokensAtPlaces(X1, n, outs, 1),
                             lfe |-> r.lastFiredEpoch,
                             fired |-> Append(T.fired, ti),
                             transitionsFired |-> T.transitionsFired + 1],
                            n, order, i, epoch)
                    ELSE processTransitions_WhileEnabled([T EXCEPT !.X = X1], n, order, i + 1,
                                                         epoch)

RECURSIVE processTransitions(_, _, _, _, _)
processTransitions(T, n, order, i, epoch) ==
    IF i > Len(order) THEN T
    ELSE LET ti == order[i]
             t == n.transitions[ti]
         IN IF ~isEnabled(n, T.X.queues, t)
            THEN processTransitions(T, n, order, i + 1, epoch)
            ELSE LET outs == OutputPlaces(n, t.outputArcs, 1)
                     r == fire(n, T.X.queues, T.lfe, ti, epoch)
                     X1 == [T.X EXCEPT !.queues = r.queues]
                 IN IF r.success
                    THEN processTransitions(
                            [X |-> processNewTokensAtPlaces(X1, n, outs, 1),
                             lfe |-> r.lastFiredEpoch,
                             fired |-> Append(T.fired, ti),
                             transitionsFired |-> T.transitionsFired + 1],
                            n, order, i + 1, epoch)
                    ELSE processTransitions([T EXCEPT !.X = X1], n, order, i + 1, epoch)

\* ------------------------------------------------------ history of a tick
InputKeys(n, t) ==
    {QueueKey(n, resolvePlace(n, t.inputArcs[i])) :
        i \in {k \in 1..Len(t.inputArcs) : resolvePlace(n, t.inputArcs[k]).found}}

TransIds(n) == 1..Len(n.transitions)

\* pairs (a, b), a of higher priority, both enabled, sharing an input queue that
\* holds exactly one unlocked token
ContestedPairs(n, qs) ==
    {pr \in TransIds(n) \X TransIds(n) :
        /\ n.transitions[pr[1]].priority > n.transitions[pr[2]].priority
        /\ isEnabled(n, qs, n.transitions[pr[1]])
        /\ isEnabled(n, qs, n.transitions[pr[2]])
        /\ \E k \in InputKeys(n, n.transitions[pr[1]]) \cap InputKeys(n, n.transitions[pr[2]]) :
              availableCount(qs[k]) = 1}

\* pairs (a, b) of equal priority, both enabled, that compete for the tokens of
\* a shared input queue no third transition reads
EligiblePairs(n, qs) ==
    {pr \in TransIds(n) \X TransIds(n) :
        /\ pr[1] < pr[2]
        /\ n.transitions[pr[1]].priority = n.transitions[pr[2]].priority
        /\ isEnabled(n, qs, n.transitions[pr[1]])
        /\ isEnabled(n, qs, n.transitions[pr[2]])
        /\ \E k \in InputKeys(n, n.transitions[pr[1]]) \cap InputKeys(n, n.transitions[pr[2]]) :
              \A c \in TransIds(n) \ {pr[1], pr[2]} : k \notin InputKeys(n, n.transitions[c])}

Range(s) == {s[i] : i \in 1..Len(s)}

\* position of transition ti in the order a tick visits
PosIn(order, ti) == CHOOSE i \in 1..Len(order) : order[i] = ti

\* of the pairs eligible in two consecutive ticks, those with a transition that
\* fired in neither
StarvedPairs(both, prevFired, fired) ==
    {pr \in both : ~({pr[1], pr[2]} \subseteq Range(prevFired) \cup Range(fired))}

\* of the pairs eligible in two consecutive ticks, those <<a, b>> where a alone
\* fired in the first tick and yet a is not behind b in the second tick's order
\* or does not have the larger last_fired_epoch when the second tick starts
MisorderedPairs(both, prevFired, order, lfe) ==
    {ab \in UNION {{<<pr[1], pr[2]>>, <<pr[2], pr[1]>>} : pr \in both} :
        /\ ab[1] \in Range(prevFired)
        /\ ab[2] \notin Range(prevFired)
        /\ ~(PosIn(order, ab[2]) < PosIn(order, ab[1]) /\ lfe[ab[1]] > lfe[ab[2]])}

\* ------------------------------------------------ Spec: RuntimeController
Arc(place, suffix) == [place |-> place, suffix |-> suffix, weight |-> DefaultWeight]
Trans(prio, ins, outs) == [priority |-> prio, inputArcs |-> ins, outputArcs |-> outs]

\* createPlaceType: the policy of an ActionPlace built from the configuration
ConfigPolicy(retries, timeoutPerTry) ==
    [maxRetries |-> retries, timeout |-> timeoutPerTry, retryDelay |-> DefaultRetryDelay,
     retryOnError |-> TRUE, retryOnFailure |-> FALSE]

Plain == PlaceCfg("plain", FALSE, NoPolicy, 0)
Entrypoint == PlaceCfg("entrypoint", FALSE, NoPolicy, 0)
ExitLogger == PlaceCfg("exit_logger", FALSE, NoPolicy, 0)

\* entry -> exit
NetDirect ==
    [places |-> [p \in {"entry", "exit"} |-> IF p = "entry" THEN Entrypoint ELSE ExitLogger],
     transitions |-> <<Trans(DefaultPriority, <<Arc("entry", "")>>, <<Arc("exit", "")>>)>>]

\* entry -> mid -> exit
NetLinear ==
    [places |-> [p \in {"entry", "mid", "exit"} |->
                    CASE p = "entry" -> Entrypoint [] p = "mid" -> Plain [] OTHER -> ExitLogger],
     transitions |-> <<Trans(DefaultPriority, <<Arc("entry", "")>>, <<Arc("mid", "")>>),
                       Trans(DefaultPriority, <<Arc("mid", "")>>, <<Arc("exit", "")>>)>>]

\* entry -> act; act::success -> exit; timeout_per_try of one time unit
NetAction(retries, hasInvoker) ==
    [places |-> [p \in {"entry", "act", "exit"} |->
                    CASE p = "entry" -> Entrypoint
                      [] p = "act" -> PlaceCfg("action", hasInvoker,
                                               ConfigPolicy(retries, 1), 0)
                      [] OTHER -> ExitLogger],
     transitions |-> <<Trans(DefaultPriority, <<Arc("entry", "")>>, <<Arc("act", "")>>),
                       Trans(DefaultPriority, <<Arc("act", "success")>>, <<Arc("exit", "")>>)>>]

\* two transitions from the same entrypoint, priorities lo and hi
NetCompete(lo, hi) ==
    [places |-> [p \in {"entry", "exit", "exit2"} |->
                    IF p = "entry" THEN Entrypoint ELSE ExitLogger],
     transitions |-> <<Trans(lo, <<Arc("entry", "")>>, <<Arc("exit", "")>>),
                       Trans(hi, <<Arc("entry", "")>>, <<Arc("exit2", "")>>)>>]

\* a resource pool drained into an exit
NetPool(poolSize) ==
    [places |-> [p \in {"pool", "exit"} |->
                    IF p = "pool" THEN PlaceCfg("resource_pool", FALSE, NoPolicy, poolSize)
                    ELSE ExitLogger],
     transitions |-> <<Trans(DefaultPriority, <<Arc("pool", "")>>, <<Arc("exit", "")>>)>>]


Nets ==
    {NetDirect, NetLinear, NetAction(0, TRUE), NetAction(0, FALSE),
     NetCompete(DefaultPriority, HighPriority), NetCompete(DefaultPriority, DefaultPriority),
     NetPool(PoolSize)}

\* tokens a ResourcePoolPlace is built with carry identities above the injected ones
PoolToken(i) == 100 + i

\* ResourcePoolPlace constructor: initializePool pushes poolSize tokens
RECURSIVE initializePool(_, _)
initializePool(Q, k) == IF k = 0 THEN Q ELSE push(initializePool(Q, k - 1), PoolToken(k))

\* the queues of the places createNetFromConfig builds
FreshQueues(n) ==
    [k \in QKeys |->
        IF k[2] = "None" /\ k[1] \in DOMAIN n.places /\ n.places[k[1]].type = "resource_pool"
        THEN initializePool(EmptyQueue, n.places[k[1]].poolSize)
        ELSE EmptyQueue]

\* loadConfig of one of the configurations in S on a fresh controller
Loaded(S) ==
    /\ \E n \in S :
        /\ InitCommon(n)
        /\ queues = FreshQueues(n)
        /\ accepted = UNION {{PoolToken(i) : i \in 1..n.places[p].poolSize} : p \in DOMAIN n.places}
    /\ nextTok = 1

Init == Loaded(Nets)

\* Place::canAcceptToken / Place::addToken on the main queue Q of a place
canAcceptToken(cfg, Q) == cfg.capacity = NoCapacity \/ size(Q) < cfg.capacity

\* addToken that compares the capacity with the unlocked entries only: the
\* variant C14 is checked against
addToken_Available(cfg, Q, tok) ==
    IF cfg.capacity # NoCapacity /\ availableCount(Q) >= cfg.capacity
    THEN [ok |-> FALSE, error |-> "ResourceError", id |-> 0, Q |-> Q]
    ELSE [ok |-> TRUE, error |-> "", id |-> Q.nextId_, Q |-> push(Q, tok)]

addToken(cfg, Q, tok) ==
    IF cfg.capacity # NoCapacity /\ size(Q) >= cfg.capacity
    THEN [ok |-> FALSE, error |-> "ResourceError", id |-> 0, Q |-> Q]
    ELSE [ok |-> TRUE, error |-> "", id |-> Q.nextId_, Q |-> push(Q, tok)]

\* inject that counts the token before it looks at the capacity: the variant
\* C19 is checked against
inject_CountsRejected(cfg, Q, count, tok, valid) ==
    IF cfg.hasValidator /\ ~valid THEN [id |-> 0, Q |-> Q, injectedCount |-> count]
    ELSE IF ~canAcceptToken(cfg, Q) THEN [id |-> 0, Q |-> Q, injectedCount |-> count + 1]
    ELSE LET a == addToken(cfg, Q, tok)
         IN [id |-> a.id, Q |-> a.Q, injectedCount |-> count + 1]

\* EntrypointPlace::inject; valid is the validator's verdict on the token
inject(cfg, Q, count, tok, valid) ==
    IF cfg.hasValidator /\ ~valid THEN [id |-> 0, Q |-> Q, injectedCount |-> count]
    ELSE IF ~canAcceptToken(cfg, Q) THEN [id |-> 0, Q |-> Q, injectedCount |-> count]
    ELSE LET a == addToken(cfg, Q, tok)
         IN [id |-> a.id, Q |-> a.Q, injectedCount |-> count + 1]

\* RuntimeController::injectToken as a function of the state it reads
injectToken(n, qs, counts, st, p, tok, valid) ==
    IF p \notin DOMAIN n.places \/ n.places[p].type # "entrypoint"
    THEN [id |-> 0, queues |-> qs, injectedCount |-> counts, stats |-> st]
    ELSE LET r == inject(n.places[p], qs[<<p, "None">>], counts[p], tok, valid)
         IN [id |-> r.id,
             queues |-> [qs EXCEPT ![<<p, "None">>] = r.Q],
             injectedCount |-> [counts EXCEPT ![p] = r.injectedCount],
             stats |-> IF r.id # 0 THEN [st EXCEPT !.tokensProcessed = @ + 1] ELSE st]

\* the verdicts a validator can give: none is asked for when none is set
Verdicts(n, p) ==
    IF p \in DOMAIN n.places /\ n.places[p].hasValidator THEN BOOLEAN ELSE {TRUE}

\* the targets a caller names: the places of the model and a name no net has
InjectTargets == PlaceIds \cup {"nowhere"}

\* injectToken(entrypointId, token): everything but the record of the call
InjectTokenStep(p, valid) ==
    /\ nextTok <= MaxTokens
    /\ LET r == injectToken(net, queues, injectedCount, stats, p, nextTok, valid)
       IN /\ queues' = r.queues
          /\ injectedCount' = r.injectedCount
          /\ stats' = r.stats
          /\ accepted' = IF r.id # 0 THEN accepted \cup {nextTok} ELSE accepted
          /\ nextTok' = IF r.id # 0 THEN nextTok + 1 ELSE nextTok
    /\ UNCHANGED <<net, state, ticks, lastFiredEpoch, inFlight, execNextId, exitCount, exitLog, now, alog,
                   tickLog, fireLog, waiting, actionInvokers, waitLog>>

InjectToken(p) ==
    /\ \E valid \in Verdicts(net, p) : InjectTokenStep(p, valid)
    /\ UNCHANGED <<calls, thr>>

\* tick() whose processTick fires the transitions before it polls the executor
\* and ticks the behaviours: the variant C25 is checked against
TickStep_FireFirst ==
    /\ ticks' = ticks + 1
    /\ \E order \in Orders(DOMAIN inFlight), res \in PollResults(inFlight, now),
          sorted \in getTransitionsByPriority(net, lastFiredEpoch), wo \in WaitOrders(waiting) :
         LET epoch == stats.epoch + 1
             T0 == processTransitions(
                     [X |-> CurX, lfe |-> lastFiredEpoch, fired |-> <<>>,
                      transitionsFired |-> stats.transitionsFired],
                     net, sorted, 1, epoch)
             X1 == poll(T0.X, order, res, now)
             X2 == CurX
             T == [T0 EXCEPT !.X = processPlaceTypes(X1, net, PlaceSeq(net), 1, wo)]
         IN /\ SetX([T.X EXCEPT !.alog = alog, !.waitLog = waitLog, !.inFlight = ForgetCalls(@)])
            /\ lastFiredEpoch' = T.lfe
            /\ stats' = [stats EXCEPT !.epoch = epoch, !.transitionsFired = T.transitionsFired]
            /\ tickLog' =
                  LET eligible == EligiblePairs(net, X2.queues)
                      both == eligible \cap tickLog.eligible
                  IN [fired |-> T.fired,
                      contested |-> ContestedPairs(net, X2.queues),
                      eligible |-> eligible,
                      starved |-> StarvedPairs(both, tickLog.fired, T.fired),
                      misordered |-> MisorderedPairs(both, tickLog.fired, sorted,
                                                     lastFiredEpoch)]
    /\ UNCHANGED <<net, state, injectedCount, now, nextTok, accepted, fireLog, actionInvokers, thr>>

\* tick(): processTick under the controller mutex; everything but the record
\* of the call
TickStep ==
    /\ ticks' = ticks + 1
    /\ \E order \in Orders(DOMAIN inFlight), res \in PollResults(inFlight, now),
          sorted \in getTransitionsByPriority(net, lastFiredEpoch), wo \in WaitOrders(waiting) :
         LET epoch == stats.epoch + 1
             X1 == poll(CurX, order, res, now)
             X2 == processPlaceTypes(X1, net, PlaceSeq(net), 1, wo)
             T == processTransitions(
                     [X |-> X2, lfe |-> lastFiredEpoch, fired |-> <<>>,
                      transitionsFired |-> stats.transitionsFired],
                     net, sorted, 1, epoch)
         IN /\ SetX([T.X EXCEPT !.alog = alog, !.waitLog = waitLog, !.inFlight = ForgetCalls(@)])
            /\ lastFiredEpoch' = T.lfe
            /\ stats' = [stats EXCEPT !.epoch = epoch, !.transitionsFired = T.transitionsFired]
            /\ tickLog' =
                  LET eligible == EligiblePairs(net, X2.queues)
                      both == eligible \cap tickLog.eligible
                  IN [fired |-> T.fired,
                      contested |-> ContestedPairs(net, X2.queues),
                      eligible |-> eligible,
                      starved |-> StarvedPairs(both, tickLog.fired, T.fired),
                      misordered |-> MisorderedPairs(both, tickLog.fired, sorted,
                                                     lastFiredEpoch)]
    /\ UNCHANGED <<net, state, injectedCount, now, nextTok, accepted, fireLog, actionInvokers, thr>>

Tick ==
    /\ ticks < MaxTicks
    /\ TickStep
    /\ UNCHANGED calls

\* start(): from Stopped, the counters are reset and the loop thread begins;
\* the loop's ticks are Tick steps taken while the state is Running
Start ==
    /\ IF state = "Stopped"
       THEN /\ stats' = [epoch |-> 0, transitionsFired |-> 0, tokensProcessed |-> 0]
            /\ state' = "Running"
       ELSE UNCHANGED <<stats, state>>
    /\ UNCHANGED <<net, queues, lastFiredEpoch, inFlight, execNextId, exitCount, exitLog,
                   injectedCount, now, ticks, nextTok, accepted, alog, tickLog, fireLog,
                   waiting, actionInvokers, thr, waitLog, calls>>

\* stop(): from Running, the loop thread is joined
Stop ==
    /\ IF state = "Running" THEN state' = "Stopped" ELSE UNCHANGED state
    /\ UNCHANGED <<net, queues, lastFiredEpoch, inFlight, execNextId, stats, exitCount, exitLog,
                   injectedCount, now, ticks, nextTok, accepted, alog, tickLog, fireLog,
                   waiting, actionInvokers, thr, waitLog, calls>>

Next ==
    \/ \E p \in InjectTargets : InjectToken(p)
    \/ Tick
    \/ Start
    \/ Stop
    \/ \E id \in ActionIds : Cancel(id)
    \/ CancelAll
    \/ AdvanceClock

Spec == Init /\ [][Next]_vars

\* ------------------------------------------------- SpecNet: core::Net alone
RawPlace == PlaceCfg("plain", FALSE, NoPolicy, 0)
WArc(place, w) == [place |-> place, suffix |-> "", weight |-> w]

\* one transition whose two input arcs name the same place
NetRawDup ==
    [places |-> [p \in {"entry", "mid"} |-> RawPlace],
     transitions |-> <<Trans(DefaultPriority, <<Arc("entry", ""), Arc("entry", "")>>,
                             <<Arc("mid", "")>>)>>]

\* one transition whose output arc names a place the net does not have
NetRawMissing ==
    [places |-> [p \in {"entry"} |-> RawPlace],
     transitions |-> <<Trans(DefaultPriority, <<Arc("entry", "")>>, <<Arc("nowhere", "")>>)>>]

\* a join and a fork
NetRawJoin ==
    [places |-> [p \in {"entry", "mid", "exit"} |-> RawPlace],
     transitions |-> <<Trans(DefaultPriority, <<Arc("entry", ""), Arc("mid", "")>>,
                             <<Arc("exit", "")>>),
                       Trans(DefaultPriority, <<Arc("exit", "")>>,
                             <<Arc("entry", ""), Arc("mid", "")>>)>>]

\* arcs of weight 2
NetRawWeighted ==
    [places |-> [p \in {"entry", "mid"} |-> RawPlace],
     transitions |-> <<Trans(DefaultPriority, <<WArc("entry", 2)>>, <<WArc("mid", 2)>>)>>]

RawNets == {NetRawDup, NetRawMissing, NetRawJoin, NetRawWeighted}

InitNet ==
    /\ \E n \in RawNets : InitCommon(n)
    /\ queues = [k \in QKeys |-> EmptyQueue]
    /\ nextTok = 1
    /\ accepted = {}

NetUnchanged ==
    UNCHANGED <<net, state, ticks, inFlight, execNextId, stats, exitCount, exitLog, injectedCount, now, accepted,
                alog, tickLog, waiting, actionInvokers, thr, waitLog, calls>>

\* Place::addToken on a place of the net (no capacity set)
NetAddToken(p) ==
    /\ nextTok <= MaxTokens
    /\ p \in DOMAIN net.places
    /\ queues' = [queues EXCEPT ![<<p, "None">>] = push(@, nextTok)]
    /\ nextTok' = nextTok + 1
    /\ UNCHANGED <<lastFiredEpoch, fireLog>>
    /\ NetUnchanged

\* TokenQueue::lock on an entry of a main queue
NetLock(p, id) ==
    /\ p \in DOMAIN net.places
    /\ \E i \in 1..Len(queues[<<p, "None">>].queue_) :
          /\ queues[<<p, "None">>].queue_[i].id = id
          /\ ~queues[<<p, "None">>].queue_[i].locked
    /\ queues' = [queues EXCEPT ![<<p, "None">>] = lock(@, id)]
    /\ UNCHANGED <<nextTok, lastFiredEpoch, fireLog>>
    /\ NetUnchanged

\* Net::fire(transition, epoch) called directly, enabled or not
NetFire(ti) ==
    /\ fireLog.count < MaxFires
    /\ ti \in TransIds(net)
    /\ LET r == fire(net, queues, lastFiredEpoch, ti, fireLog.count + 1)
       IN /\ queues' = r.queues
          /\ lastFiredEpoch' = r.lastFiredEpoch
          /\ fireLog' = [count |-> fireLog.count + 1, ti |-> ti, success |-> r.success,
                         enabled |-> isEnabled(net, queues, net.transitions[ti]),
                         before |-> queues, lfeBefore |-> lastFiredEpoch]
    /\ UNCHANGED nextTok
    /\ NetUnchanged

NextNet ==
    \/ \E p \in PlaceIds : NetAddToken(p)
    \/ \E p \in PlaceIds, id \in 1..MaxTokens : NetLock(p, id)
    \/ \E ti \in 1..2 : NetFire(ti)

SpecNet == InitNet /\ [][NextNet]_vars

\* ------------------------- SpecCalls: RuntimeController, every call recorded
\* entry -> wait; wait::failure -> exit
NetWait(timeout) ==
    [places |-> [p \in {"entry", "wait", "exit"} |->
                    CASE p = "entry" -> Entrypoint
                      [] p = "wait" -> [PlaceCfg("wait_with_timeout", FALSE, NoPolicy, 0)
                                           EXCEPT !.waitTimeout = timeout]
                      [] OTHER -> ExitLogger],
     transitions |-> <<Trans(DefaultPriority, <<Arc("entry", "")>>, <<Arc("wait", "")>>),
                       Trans(DefaultPriority, <<Arc("wait", "failure")>>, <<Arc("exit", "")>>)>>]

\* entry -> mid::success, mid a plain place; the caller has set the capacity
\* cap on both places through net()
NetCapped(cap) ==
    [places |-> [p \in {"entry", "mid"} |->
                    IF p = "entry" THEN setCapacity(Entrypoint, cap) ELSE setCapacity(Plain, cap)],
     transitions |-> <<Trans(DefaultPriority, <<Arc("entry", "")>>, <<Arc("mid", "success")>>)>>]

\* a resource pool lent to a wait place: pool -> wait takes a resource,
\* wait::failure -> pool returns it
NetPoolCycle(poolSize, timeout) ==
    [places |-> [p \in {"pool", "wait"} |->
                    IF p = "pool" THEN PlaceCfg("resource_pool", FALSE, NoPolicy, poolSize)
                    ELSE [PlaceCfg("wait_with_timeout", FALSE, NoPolicy, 0)
                             EXCEPT !.waitTimeout = timeout]],
     transitions |-> <<Trans(DefaultPriority, <<Arc("pool", "")>>, <<Arc("wait", "")>>),
                       Trans(DefaultPriority, <<Arc("wait", "failure")>>, <<Arc("pool", "")>>)>>]

CallNets ==
    {NetLinear, NetCapped(1), NetWait(1), NetAction(0, FALSE), NetAction(0, TRUE),
     NetPoolCycle(PoolSize, 1)}

InitCalls == Loaded(CallNets)

\* getPlaceTokens(placeId)
getPlaceTokens(n, qs, p) ==
    IF p \notin DOMAIN n.places THEN <<>>
    ELSE getAllTokens(qs[<<p, "None">>])
         \o (IF n.places[p].hasSubplaces
             THEN getAllTokens(qs[<<p, "InExecution">>]) \o getAllTokens(qs[<<p, "Success">>])
                  \o getAllTokens(qs[<<p, "Failure">>]) \o getAllTokens(qs[<<p, "Error">>])
             ELSE <<>>)

\* what an external caller can read
Observed == [queues |-> queues, injectedCount |-> injectedCount, stats |-> stats,
             exitCount |-> exitCount, inFlight |-> inFlight]

\* the targets named in recorded calls: an entrypoint, a place that is none,
\* a name no net has
CallTargets == {"entry", "exit", "nowhere"}

InjectTokenCall(p) ==
    /\ Len(calls) < MaxTrace
    /\ \E valid \in Verdicts(net, p) :
          /\ InjectTokenStep(p, valid)
          /\ calls' = Append(calls,
                [op |-> "inject_token", arg |-> p, token |-> nextTok, valid |-> valid,
                 ret |-> injectToken(net, queues, injectedCount, stats, p, nextTok, valid).id,
                 before |-> Observed])
    /\ UNCHANGED thr

TickCall ==
    /\ Len(calls) < MaxTrace
    /\ TickStep
    /\ calls' = Append(calls, [op |-> "tick", arg |-> "", ret |-> 0])

\* registerAction(actionId, invoker): the invoker is stored under the name
RegisterActionCall(name) ==
    /\ Len(calls) < MaxTrace
    /\ actionInvokers' = actionInvokers \cup {name}
    /\ calls' = Append(calls, [op |-> "register_action", arg |-> name, ret |-> 0])
    /\ UNCHANGED <<net, queues, lastFiredEpoch, inFlight, execNextId, stats, state, exitCount, exitLog,
                   injectedCount, now, ticks, nextTok, accepted, alog, tickLog, fireLog,
                   waiting, waitLog, thr>>

NextCalls ==
    \/ \E p \in CallTargets : InjectTokenCall(p)
    \/ TickCall
    \/ RegisterActionCall(ActionName)
    \/ AdvanceClock

SpecCalls == InitCalls /\ [][NextCalls]_vars

\* ------------- SpecThreads: the controller, its loop thread and two callers
\* tick is taken in the steps of processTick, the mutex held from the first
\* to the last; start() and stop() are called by one thread, the owner
ThreadNets == {NetLinear}

InitThreads == Loaded(ThreadNets)

\* a lock_guard that does not wait for the mutex: the variant C22 is checked
\* against
MutexFree_Always(t) == TRUE

\* std::lock_guard<std::mutex> lock(mutex_): the caller goes on when no thread
\* holds the mutex
MutexFree(t) == t.mutex = "none"

\* stop() that does not wait for the loop thread: the variant C24 is checked
\* against
join_NoWait(t) == TRUE

\* runThread_.join(): returns when runLoop has returned
join(t) == t.pc["loop"] = "done"

\* thread h is inside processTick
Inside(t, h) == t.pc[h] \in {"poll", "place", "fire"}

\* the step of processTick that is next for a thread inside it
TickPhase(t) ==
    IF \E h \in Threads : Inside(t, h) THEN t.pc[CHOOSE h \in Threads : Inside(t, h)] ELSE "none"

\* tick() by a caller, or the loop's lock_guard: the mutex is taken and
\* processTick increments the epoch
ThrTickBegin(h) ==
    /\ thr.pc[h] = IF h = "loop" THEN "lock" ELSE "idle"
    /\ h # "loop" => ticks < MaxThreadTicks
    /\ MutexFree(thr)
    /\ thr' = [thr EXCEPT !.mutex = h, !.pc[h] = "poll"]
    /\ stats' = [stats EXCEPT !.epoch = @ + 1]
    /\ ticks' = IF h = "loop" THEN ticks ELSE ticks + 1
    /\ UNCHANGED <<net, queues, lastFiredEpoch, inFlight, execNextId, state, exitCount, exitLog,
                   injectedCount, now, nextTok, accepted, alog, tickLog, fireLog, waiting,
                   actionInvokers, waitLog, calls>>

\* processTick: executor_.poll()
ThrTickPoll(h) ==
    /\ thr.pc[h] = "poll"
    /\ \E order \in Orders(DOMAIN inFlight), res \in PollResults(inFlight, now) :
          SetX([poll(CurX, order, res, now) EXCEPT !.alog = alog, !.waitLog = waitLog,
                                                   !.inFlight = ForgetCalls(@)])
    /\ thr' = [thr EXCEPT !.pc[h] = "place"]
    /\ UNCHANGED <<net, lastFiredEpoch, stats, state, injectedCount, now, ticks, nextTok,
                   accepted, tickLog, fireLog, actionInvokers, calls>>

\* processTick: processPlaceTypes()
ThrTickPlaces(h) ==
    /\ thr.pc[h] = "place"
    /\ \E wo \in WaitOrders(waiting) :
          SetX([processPlaceTypes(CurX, net, PlaceSeq(net), 1, wo)
                   EXCEPT !.alog = alog, !.waitLog = waitLog])
    /\ thr' = [thr EXCEPT !.pc[h] = "fire"]
    /\ UNCHANGED <<net, lastFiredEpoch, stats, state, injectedCount, now, ticks, nextTok,
                   accepted, tickLog, fireLog, actionInvokers, calls>>

\* processTick: processTransitions(), then the lock_guard releases the mutex;
\* a caller's tick() returns, the loop sleeps and tests state_ again
ThrTickFire(h) ==
    /\ thr.pc[h] = "fire"
    /\ \E sorted \in getTransitionsByPriority(net, lastFiredEpoch) :
         LET T == processTransitions(
                     [X |-> CurX, lfe |-> lastFiredEpoch, fired |-> <<>>,
                      transitionsFired |-> stats.transitionsFired],
                     net, sorted, 1, stats.epoch)
         IN /\ SetX([T.X EXCEPT !.alog = alog, !.waitLog = waitLog])
            /\ lastFiredEpoch' = T.lfe
            /\ stats' = [stats EXCEPT !.transitionsFired = T.transitionsFired]
    /\ thr' = [thr EXCEPT !.mutex = "none", !.pc[h] = IF h = "loop" THEN "check" ELSE "idle"]
    /\ UNCHANGED <<net, state, injectedCount, now, ticks, nextTok, accepted, tickLog, fireLog,
                   actionInvokers, calls>>

\* runLoop: while (state_ == Running), else the thread function returns
ThrLoopCheck ==
    /\ thr.pc["loop"] = "check"
    /\ IF state = "Running"
       THEN /\ ticks < MaxThreadTicks
            /\ ticks' = ticks + 1
            /\ thr' = [thr EXCEPT !.pc["loop"] = "lock"]
       ELSE /\ thr' = [thr EXCEPT !.pc["loop"] = "done"]
            /\ UNCHANGED ticks
    /\ UNCHANGED <<net, queues, lastFiredEpoch, inFlight, execNextId, stats, state, exitCount, exitLog,
                   injectedCount, now, nextTok, accepted, alog, tickLog, fireLog, waiting,
                   actionInvokers, waitLog, calls>>

\* start() from Stopped: state_ = Starting
ThrStartBegin ==
    /\ thr.pc["owner"] = "idle"
    /\ state = "Stopped"
    /\ state' = "Starting"
    /\ thr' = [thr EXCEPT !.pc["owner"] = "start"]
    /\ UNCHANGED <<net, queues, lastFiredEpoch, inFlight, execNextId, stats, exitCount, exitLog,
                   injectedCount, now, ticks, nextTok, accepted, alog, tickLog, fireLog, waiting,
                   actionInvokers, waitLog, calls>>

\* start(), the rest: the counters are reset, state_ = Running, the loop
\* thread is created
ThrStartFinish ==
    /\ thr.pc["owner"] = "start"
    /\ stats' = [epoch |-> 0, transitionsFired |-> 0, tokensProcessed |-> 0]
    /\ state' = "Running"
    /\ thr' = [thr EXCEPT !.pc["owner"] = "idle", !.pc["loop"] = "check"]
    /\ UNCHANGED <<net, queues, lastFiredEpoch, inFlight, execNextId, exitCount, exitLog,
                   injectedCount, now, ticks, nextTok, accepted, alog, tickLog, fireLog, waiting,
                   actionInvokers, waitLog, calls>>

\* a call that returns without the mutex and leaves the controller as it was;
\* obs keeps the call, what stats() returned and the step of the tick under way
ThrReturn(u, op) ==
    /\ thr.pc[u] = "idle"
    /\ thr' = [thr EXCEPT !.obs =
                  [op |-> op, phase |-> TickPhase(thr),
                   epoch |-> IF op = "stats" THEN stats.epoch ELSE 0,
                   transitionsFired |-> IF op = "stats" THEN stats.transitionsFired ELSE 0]]
    /\ UNCHANGED <<net, queues, lastFiredEpoch, inFlight, execNextId, stats, state, exitCount, exitLog,
                   injectedCount, now, ticks, nextTok, accepted, alog, tickLog, fireLog, waiting,
                   actionInvokers, waitLog, calls>>

\* start() in a state that is not Stopped returns at once
ThrStartNoop(u) == state # "Stopped" /\ ThrReturn(u, "start")

\* stop() from Running: state_ = Stopping
ThrStopBegin ==
    /\ thr.pc["owner"] = "idle"
    /\ state = "Running"
    /\ state' = "Stopping"
    /\ thr' = [thr EXCEPT !.pc["owner"] = "join"]
    /\ UNCHANGED <<net, queues, lastFiredEpoch, inFlight, execNextId, stats, exitCount, exitLog,
                   injectedCount, now, ticks, nextTok, accepted, alog, tickLog, fireLog, waiting,
                   actionInvokers, waitLog, calls>>

\* stop(), the rest: the loop thread is joined, state_ = Stopped
ThrStopJoin ==
    /\ thr.pc["owner"] = "join"
    /\ join(thr)
    /\ state' = "Stopped"
    /\ thr' = [thr EXCEPT !.pc["owner"] = "idle"]
    /\ UNCHANGED <<net, queues, lastFiredEpoch, inFlight, execNextId, stats, exitCount, exitLog,
                   injectedCount, now, ticks, nextTok, accepted, alog, tickLog, fireLog, waiting,
                   actionInvokers, waitLog, calls>>

\* stop() in a state that is not Running returns at once
ThrStopNoop(u) == state # "Running" /\ ThrReturn(u, "stop")

\* injectToken under the mutex
ThrInjectToken(u, p) ==
    /\ thr.pc[u] = "idle"
    /\ MutexFree(thr)
    /\ nextTok <= MaxInjected
    /\ \E valid \in Verdicts(net, p) : InjectTokenStep(p, valid)
    /\ UNCHANGED <<calls, thr>>

\* loadConfig of the configuration again, under the mutex: the PlaceTypes are
\* cleared and built anew on new Place objects; the transitions stay
ThrLoadConfig(u) ==
    /\ thr.pc[u] = "idle"
    /\ MutexFree(thr)
    /\ queues' = FreshQueues(net)
    /\ waiting' = [p \in PlaceIds |-> {}]
    /\ injectedCount' = [p \in PlaceIds |-> 0]
    /\ exitCount' = [p \in PlaceIds |-> 0]
    /\ exitLog' = [p \in PlaceIds |-> <<>>]
    /\ UNCHANGED <<net, lastFiredEpoch, inFlight, execNextId, stats, state, now, ticks, nextTok,
                   accepted, alog, tickLog, fireLog, actionInvokers, waitLog, calls, thr>>

\* stats(): no lock is taken
ThrStats(u) == thr.pc[u] = "idle" /\ ThrReturn(u, "stats")

\* getPlaceTokens(placeId): no lock is taken
ThrGetPlaceTokens(u) == thr.pc[u] = "idle" /\ ThrReturn(u, "get_place_tokens")

\* registerAction(actionId, invoker): no lock is taken
ThrRegisterAction(u, name) ==
    /\ thr.pc[u] = "idle"
    /\ actionInvokers' = actionInvokers \cup {name}
    /\ thr' = [thr EXCEPT !.obs = [NoObs EXCEPT !.op = "register_action",
                                                !.phase = TickPhase(thr)]]
    /\ UNCHANGED <<net, queues, lastFiredEpoch, inFlight, execNextId, stats, state, exitCount, exitLog,
                   injectedCount, now, ticks, nextTok, accepted, alog, tickLog, fireLog, waiting,
                   waitLog, calls>>

NextThreads ==
    \/ \E h \in Tickers : ThrTickBegin(h)
    \/ \E h \in Tickers : ThrTickPoll(h)
    \/ \E h \in Tickers : ThrTickPlaces(h)
    \/ \E h \in Tickers : ThrTickFire(h)
    \/ ThrLoopCheck
    \/ ThrStartBegin
    \/ ThrStartFinish
    \/ \E u \in Threads \ {"loop"} : ThrStartNoop(u)
    \/ ThrStopBegin
    \/ ThrStopJoin
    \/ \E u \in Threads \ {"loop"} : ThrStopNoop(u)
    \/ \E u \in Callers : ThrInjectToken(u, "entry")
    \/ \E u \in Callers : ThrLoadConfig(u)
    \/ \E u \in Callers : ThrStats(u)
    \/ \E u \in Callers : ThrGetPlaceTokens(u)
    \/ \E u \in Callers : ThrRegisterAction(u, ActionName)

SpecThreads == InitThreads /\ [][NextThreads]_vars

\* ------------------ SpecQueue: one Place, its queues and its EntrypointPlace
\* the calls variable keeps one record per id handed out and, last, the record
\* of the latest call with the queues it found
Last(c) == c[Len(c)]
Handed(c) == SelectSeq(c, LAMBDA e : e.op = "id")
NoteCall(e, handsId) ==
    calls' = Handed(calls)
               \o (IF handsId THEN <<[op |-> "id", ret |-> e.ret]>> ELSE <<>>)
               \o <<e>>

Capacities == {NoCapacity} \cup (0..MaxCapacity)

\* a Place with sub-queues enabled and an optional capacity, under an
\* EntrypointPlace with or without a validator
QueuePlace(cap, hasValidator) ==
    [setCapacity(Entrypoint, cap) EXCEPT !.hasSubplaces = TRUE, !.hasValidator = hasValidator]

QK == <<"entry", "None">>
QSub == <<"entry", "Success">>

\* the token a caller creates: its data is not the id a queue gives it
Payload(k) == MaxTokens + k

InitQueue ==
    /\ \E cap \in Capacities, v \in BOOLEAN :
          InitCommon([places |-> [p \in {"entry"} |-> QueuePlace(cap, v)], transitions |-> <<>>])
    /\ queues = [k \in QKeys |-> EmptyQueue]
    /\ nextTok = 1
    /\ accepted = {}

QueueUnchanged ==
    UNCHANGED <<net, state, ticks, lastFiredEpoch, inFlight, execNextId, stats, exitCount, exitLog, now,
                accepted, alog, tickLog, fireLog, waiting, actionInvokers, thr, waitLog>>

\* TokenQueue::push on the main queue or on a sub-queue, past Place::addToken
QPush(k) ==
    /\ nextTok <= MaxTokens
    /\ queues' = [queues EXCEPT ![k] = push(@, Payload(nextTok))]
    /\ nextTok' = nextTok + 1
    /\ NoteCall([op |-> "push", arg |-> k, ret |-> queues[k].nextId_, before |-> queues], k = QK)
    /\ UNCHANGED injectedCount
    /\ QueueUnchanged

\* Place::addToken
QAddToken ==
    /\ nextTok <= MaxTokens
    /\ LET a == addToken(net.places["entry"], queues[QK], Payload(nextTok))
       IN /\ queues' = [queues EXCEPT ![QK] = a.Q]
          /\ nextTok' = IF a.ok THEN nextTok + 1 ELSE nextTok
          /\ NoteCall([op |-> "add_token", arg |-> 0, ret |-> a.id, error |-> a.error,
                       before |-> queues], a.ok)
    /\ UNCHANGED injectedCount
    /\ QueueUnchanged

\* EntrypointPlace::inject
QInject(valid) ==
    /\ nextTok <= MaxTokens
    /\ LET r == inject(net.places["entry"], queues[QK], injectedCount["entry"],
                       Payload(nextTok), valid)
       IN /\ queues' = [queues EXCEPT ![QK] = r.Q]
          /\ injectedCount' = [injectedCount EXCEPT !["entry"] = r.injectedCount]
          /\ nextTok' = IF r.id # 0 THEN nextTok + 1 ELSE nextTok
          /\ NoteCall([op |-> "inject", arg |-> valid, ret |-> r.id, before |-> queues,
                       countBefore |-> injectedCount["entry"]], r.id # 0)
    /\ QueueUnchanged

\* TokenQueue::pop on the main queue
QPop ==
    /\ LET r == pop(queues[QK])
       IN /\ queues' = [queues EXCEPT ![QK] = r.Q]
          /\ NoteCall([op |-> "pop", arg |-> 0, ret |-> r.id, has |-> r.has, token |-> r.token,
                       before |-> queues], FALSE)
    /\ UNCHANGED <<nextTok, injectedCount>>
    /\ QueueUnchanged

\* TokenQueue::remove(id) on the main queue
QRemove(id) ==
    /\ LET r == remove(queues[QK], id)
       IN /\ queues' = [queues EXCEPT ![QK] = r.Q]
          /\ NoteCall([op |-> "remove", arg |-> id, ret |-> 0, has |-> r.has, token |-> r.token,
                       before |-> queues], FALSE)
    /\ UNCHANGED <<nextTok, injectedCount>>
    /\ QueueUnchanged

\* TokenQueue::lock(id) / unlock(id) on the main queue
QLock(id) ==
    /\ queues' = [queues EXCEPT ![QK] = lock(@, id)]
    /\ NoteCall([op |-> "lock", arg |-> id, ret |-> 0, before |-> queues], FALSE)
    /\ UNCHANGED <<nextTok, injectedCount>>
    /\ QueueUnchanged

QUnlock(id) ==
    /\ queues' = [queues EXCEPT ![QK] = unlock(@, id)]
    /\ NoteCall([op |-> "unlock", arg |-> id, ret |-> 0, before |-> queues], FALSE)
    /\ UNCHANGED <<nextTok, injectedCount>>
    /\ QueueUnchanged

NextQueue ==
    \/ \E k \in {QK, QSub} : QPush(k)
    \/ QAddToken
    \/ \E valid \in Verdicts(net, "entry") : QInject(valid)
    \/ QPop
    \/ \E id \in 1..MaxTokens : QRemove(id)
    \/ \E id \in 1..MaxTokens : QLock(id)
    \/ \E id \in 1..MaxTokens : QUnlock(id)

SpecQueue == InitQueue /\ [][NextQueue]_vars

\* ------------------------------ SpecWait: one WaitWithTimeoutPlace, driven
\* directly: tokens enter, the place is ticked, time passes, and a consumer may
\* take a token out of the main sub-queue behind the place's back
WaitTimeouts == 0..MaxTime

\* the place as its constructor, setCondition and setTimeoutCallback leave it
WaitPlace(timeout, hasCondition, hasTimeoutCallback) ==
    [PlaceCfg("wait_with_timeout", FALSE, NoPolicy, 0) EXCEPT
        !.waitTimeout = timeout, !.hasCondition = hasCondition,
        !.hasTimeoutCallback = hasTimeoutCallback]

InitWait ==
    /\ \E timeout \in WaitTimeouts, c \in BOOLEAN, cb \in BOOLEAN :
          InitCommon([places |-> [p \in {"wait"} |-> WaitPlace(timeout, c, cb)],
                      transitions |-> <<>>])
    /\ queues = [k \in QKeys |-> EmptyQueue]
    /\ nextTok = 1
    /\ accepted = {}

WaitUnchanged ==
    UNCHANGED <<net, state, ticks, lastFiredEpoch, stats, injectedCount, now, accepted,
                tickLog, fireLog, actionInvokers, thr, calls>>

\* what the condition can return on each waiting token: anything when one is
\* set, nothing to choose when none is
CondResults(n, w, p) ==
    IF n.places[p].hasCondition THEN [WaitIds(w, p) -> BOOLEAN]
    ELSE {[id \in WaitIds(w, p) |-> FALSE]}

\* WaitWithTimeoutPlace::onTokenEnter
WaitTokenEnter ==
    /\ nextTok <= MaxWaiting
    /\ SetX(WaitOnTokenEnter(CurX, net, "wait", nextTok))
    /\ nextTok' = nextTok + 1
    /\ WaitUnchanged

\* WaitWithTimeoutPlace::tick
WaitTickCall ==
    /\ \E order \in Orders(WaitIds(waiting, "wait")), cond \in CondResults(net, waiting, "wait") :
          SetX(WaitTick(CurX, net, "wait", order, 1, cond))
    /\ UNCHANGED nextTok
    /\ WaitUnchanged

\* a consumer removes a waiting token from the main sub-queue
WaitTake(id) ==
    /\ get(queues[<<"wait", "Main">>], id)
    /\ queues' = [queues EXCEPT ![<<"wait", "Main">>] = remove(@, id).Q]
    /\ UNCHANGED <<nextTok, inFlight, execNextId, exitCount, exitLog, alog, waiting, waitLog>>
    /\ WaitUnchanged

NextWait ==
    \/ WaitTokenEnter
    \/ WaitTickCall
    \/ \E id \in TokenIds : WaitTake(id)
    \/ AdvanceClock

SpecWait == InitWait /\ [][NextWait]_vars

\* ---------------------------------------------------------------- claims
SumOver(S, f(_)) ==
    LET RECURSIVE Sum(_)
        Sum(R) == IF R = {} THEN 0 ELSE LET x == CHOOSE y \in R : TRUE IN f(x) + Sum(R \ {x})
    IN Sum(S)

QueueSize(k) == size(queues[k])
ExitCountOf(p) == exitCount[p]
Started(id) == alog[id].started
Done(id) == alog[id].started /\ id \notin DOMAIN inFlight
ActPolicy == net.places["act"].policy
InSub(id, sub) == alog[id].token \in TokensOf(queues[<<"act", sub>>])
SubsHolding(id) == {sub \in Subplaces : InSub(id, sub)}

\* C1: the tokens accepted by injection (plus the pool's pre-populated tokens)
\* are all accounted for: destroyed by an exit place, held in a queue, or held
\* by an in-flight action context
C1_Conservation ==
    Cardinality(accepted) =
        SumOver(PlaceIds, ExitCountOf) + SumOver(QKeys, QueueSize) + Cardinality(DOMAIN inFlight)

\* C2: after a failed Net::fire every queue holds exactly what it held before
\* the call and last_fired_epoch is unchanged
C2_AtomicFire ==
    (fireLog.count > 0 /\ ~fireLog.success) =>
        /\ queues = fireLog.before
        /\ lastFiredEpoch = fireLog.lfeBefore

\* C3: the completion callback of a started action is invoked at most once; a
\* context that is in flight has not had it invoked and is not in a finished
\* state, a context that has left the executor had it invoked exactly once, in
\* a final state
C3_CallbackOnce ==
    \A id \in ActionIds : Started(id) =>
        /\ alog[id].callbacks <= 1
        /\ IF id \in DOMAIN inFlight
           THEN /\ alog[id].callbacks = 0
                /\ ~inFlight[id].callbackInvoked
                /\ inFlight[id].state \in {"Pending", "Running", "Cancelled"}
           ELSE /\ alog[id].callbacks = 1
                /\ alog[id].finalState \in {"Completed", "Cancelled", "TimedOut", "Failed", "Error"}

C3_Witness ==
    \E id \in ActionIds : Done(id) /\ alog[id].callbacks = 1 /\ alog[id].attempts >= 2

\* max_retries + 1 as a number: a count x against k + 1 for the 32-bit k of the
\* policy (a k of 2^31 or more is above every count the bounds let happen)
AtMostKPlus1(x) == ActPolicy.maxRetries < 0 \/ x <= ActPolicy.maxRetries + 1
IsKPlus1(x) == ActPolicy.maxRetries >= 0 /\ x = ActPolicy.maxRetries + 1

\* C4 as stated: the invoker is called at most max_retries + 1 times
C4_InvokedAtMostKPlus1 ==
    \A id \in ActionIds : Started(id) => AtMostKPlus1(alog[id].calls)

\* C4 amended: an action is started (attempted) at most max_retries + 1 times
\* and its invoker returns a result other than InProgress at most
\* max_retries + 1 times
C4_RetryBound ==
    \A id \in ActionIds : Started(id) =>
        /\ AtMostKPlus1(alog[id].attempts)
        /\ AtMostKPlus1(alog[id].finished)

C4_Witness ==
    \E id \in ActionIds :
        /\ Done(id)
        /\ ActPolicy.maxRetries >= 1
        /\ alog[id].attempts = ActPolicy.maxRetries + 1
        /\ alog[id].calls > ActPolicy.maxRetries + 1

\* C5: while every invoker call returned Error, retry_on_error is set and no
\* cancel intervened, the action stays in flight without callback up to its
\* (max_retries + 1)-th invoker call and leaves the executor with that call:
\* callback fired once with an Error result, token in the error sub-queue
C5_ErrorRetries ==
    \A id \in ActionIds :
        (Started(id) /\ ActPolicy.retryOnError /\ alog[id].onlyError
                     /\ alog[id].cancelledIn = "no") =>
            /\ AtMostKPlus1(alog[id].calls)
            /\ Done(id) <=> IsKPlus1(alog[id].calls)
            /\ ~Done(id) => alog[id].callbacks = 0 /\ SubsHolding(id) = {}
            /\ Done(id) => /\ alog[id].callbacks = 1
                           /\ alog[id].result = "Error"
                           /\ SubsHolding(id) = {"Error"}

\* C6: a finished action's token is in exactly one sub-queue, the one named by
\* the final result; without an invoker the token goes to error and no action
\* is started
C6_Routing ==
    /\ \A id \in ActionIds : Done(id) =>
          /\ Len(alog[id].routed) = 1
          /\ alog[id].result = "Success" => SubsHolding(id) = {"Success"}
          /\ alog[id].result = "Failure" => SubsHolding(id) = {"Failure"}
          /\ alog[id].result = "Error" => SubsHolding(id) = {"Error"}
          /\ Cardinality(SubsHolding(id)) = 1
    /\ \A id \in ActionIds : (Started(id) /\ ~Done(id)) => SubsHolding(id) = {}
    /\ ~net.places["act"].hasInvoker =>
          /\ execNextId = FirstId
          /\ \A k \in QKeys : k # <<"act", "Error">> => size(queues[k]) = 0
          /\ TokensOf(queues[<<"act", "Error">>]) = 1..(nextTok - 1)

C6_Witness ==
    \E id \in ActionIds : Done(id) /\ alog[id].result = "Failure" /\ InSub(id, "Failure")

\* C7: a token whose action was cancelled is routed to the error sub-queue
C7_CancelledToError ==
    \A id \in ActionIds :
        (Done(id) /\ alog[id].cancelledIn # "no") => SubsHolding(id) = {"Error"}

\* C8 as stated: a token that appears in a sub-queue had its invoker called at
\* least once and its callback fired exactly once
C8_InvokedBeforeVisible ==
    \A id \in ActionIds : (Started(id) /\ SubsHolding(id) # {}) =>
        alog[id].calls >= 1 /\ alog[id].callbacks = 1

\* C8 amended: a token that appears in a sub-queue had its callback fired
\* exactly once, and its invoker called at least once unless the action was
\* cancelled before its first poll (then the invoker was never called)
C8_CallbackBeforeVisible ==
    \A id \in ActionIds : (Started(id) /\ SubsHolding(id) # {}) =>
        /\ alog[id].callbacks = 1
        /\ alog[id].cancelledIn # "NeverPolled" => alog[id].calls >= 1
        /\ alog[id].cancelledIn = "NeverPolled" => alog[id].calls = 0

C8_Witness ==
    \E id \in ActionIds :
        /\ SubsHolding(id) # {}
        /\ alog[id].cancelledIn = "Running"
        /\ alog[id].calls >= 2

\* C9: the transitions fired in a tick fired in non-increasing priority order,
\* and of two enabled transitions of different priority that share an input
\* queue holding one unlocked token the higher one fired and the lower did not
C9_PriorityOrder ==
    /\ \A i, j \in 1..Len(tickLog.fired) :
          i < j => net.transitions[tickLog.fired[i]].priority
                     >= net.transitions[tickLog.fired[j]].priority
    /\ \A pr \in tickLog.contested :
          pr[1] \in Range(tickLog.fired) /\ pr[2] \notin Range(tickLog.fired)

C9_Witness ==
    \E pr \in tickLog.contested :
        /\ net.transitions[pr[1]].priority = HighPriority
        /\ net.transitions[pr[2]].priority = DefaultPriority
        /\ tickLog.fired = <<pr[1]>>

\* C10: two equal-priority transitions competing for the same tokens, both
\* enabled in two consecutive ticks, each fire in at least one of the two; the
\* one that alone fired in the first tick has the larger last_fired_epoch and is
\* visited after the other in the second
C10_NoStarvation == tickLog.starved = {} /\ tickLog.misordered = {}

\* C11: from one call to the next the observed epoch and transitions_fired never
\* decrease, and a tick raises the epoch by exactly 1
C11_MonotoneStats ==
    [][/\ stats'.epoch >= stats.epoch
       /\ stats'.transitionsFired >= stats.transitionsFired
       /\ ticks' # ticks => stats'.epoch = stats.epoch + 1]_vars

\* the entries of a queue as a set, and those among them that are locked
Entries(Q) == {Q.queue_[i] : i \in 1..Len(Q.queue_)}
LockedIn(Q) == {e \in Entries(Q) : e.locked}
FreeIds(Q) == {e.id : e \in Entries(Q) \ LockedIn(Q)}
WithoutId(Q, id) == SelectSeq(Q.queue_, LAMBDA e : e.id # id)
LastCall(op) == calls # <<>> /\ Last(calls).op = op

\* C12: pop returns the unlocked entry inserted first (the one with the least
\* id) and removes it alone, or returns nothing and changes nothing when no
\* entry is unlocked; a locked entry stays in the queue through every call but
\* its own remove, counts in size and not in available_count, and remove(id)
\* takes it out
C12_PopSkipsLocked ==
    /\ size(queues[QK]) = Cardinality(Entries(queues[QK]))
    /\ availableCount(queues[QK]) = size(queues[QK]) - Cardinality(LockedIn(queues[QK]))
    /\ calls # <<>> =>
          LET c == Last(calls)
              Q == c.before[QK]
          IN /\ c.op = "pop" =>
                   IF FreeIds(Q) = {}
                   THEN ~c.has /\ queues[QK] = Q
                   ELSE /\ c.has
                        /\ c.ret \in FreeIds(Q)
                        /\ \A id \in FreeIds(Q) : c.ret <= id
                        /\ \E e \in Entries(Q) : e.id = c.ret /\ e.token = c.token /\ ~e.locked
                        /\ queues[QK].queue_ = WithoutId(Q, c.ret)
             /\ c.op = "remove" =>
                   IF c.arg \in {e.id : e \in Entries(Q)}
                   THEN /\ c.has
                        /\ \E e \in Entries(Q) : e.id = c.arg /\ e.token = c.token
                        /\ queues[QK].queue_ = WithoutId(Q, c.arg)
                   ELSE ~c.has /\ queues[QK] = Q
             /\ c.op \in {"pop", "push", "add_token", "inject", "lock", "unlock", "remove"} =>
                   \A e \in LockedIn(Q) :
                       \/ c.op = "remove" /\ c.arg = e.id
                       \/ c.op = "unlock" /\ c.arg = e.id /\ [e EXCEPT !.locked = FALSE] \in Entries(queues[QK])
                       \/ e \in Entries(queues[QK])

\* a pop that passed over a locked older entry and returned a younger one
C12_Witness ==
    /\ LastCall("pop")
    /\ Last(calls).has
    /\ \E e \in LockedIn(Last(calls).before[QK]) :
          e.id < Last(calls).ret /\ e \in Entries(queues[QK])

\* C13: the ids handed out by one queue, in the order they were handed out,
\* are strictly increasing - none comes twice, whatever was popped or removed
\* in between
C13_FreshIds ==
    \A i, j \in 1..Len(Handed(calls)) :
        i < j => Handed(calls)[i].ret < Handed(calls)[j].ret

\* an id handed out after an earlier entry had left the queue
C13_Witness ==
    /\ calls # <<>>
    /\ Last(calls).op \in {"push", "add_token", "inject"}
    /\ Last(calls).op = "push" => Last(calls).arg = QK
    /\ Last(calls).ret # 0
    /\ Len(Handed(calls)) >= 2
    /\ Len(Last(calls).before[QK].queue_) < Len(Handed(calls)) - 1

\* C14: add_token on a place whose main queue holds capacity-many entries or
\* more, locked ones included and sub-queue entries not counted, fails with the
\* resource error and leaves every queue as it was; otherwise it succeeds and
\* the main queue alone grows, by one entry
C14_CapacityRejects ==
    LastCall("add_token") =>
        LET c == Last(calls)
            cap == net.places["entry"].capacity
        IN IF cap # NoCapacity /\ Len(c.before[QK].queue_) >= cap
           THEN c.error = "ResourceError" /\ c.ret = 0 /\ queues = c.before
           ELSE /\ c.error = "" /\ c.ret # 0
                /\ Len(queues[QK].queue_) = Len(c.before[QK].queue_) + 1
                /\ \A k \in QKeys \ {QK} : queues[k] = c.before[k]

\* a rejection at capacity with a locked entry in the main queue, and an
\* acceptance below capacity with the sub-queue holding entries
C14_Witness ==
    /\ LastCall("add_token")
    /\ \/ /\ Last(calls).error = "ResourceError"
          /\ LockedIn(queues[QK]) # {}
          /\ Len(queues[QK].queue_) = net.places["entry"].capacity
       \/ /\ Last(calls).error = ""
          /\ net.places["entry"].capacity # NoCapacity
          /\ Len(queues[QSub].queue_) + Len(Last(calls).before[QK].queue_)
                >= net.places["entry"].capacity

\* C15: when a tick has ended, the main queue of every place that has a capacity
\* holds at most that many tokens
C15_CapacityKept ==
    LastCall("tick") =>
        \A p \in DOMAIN net.places :
            net.places[p].capacity # NoCapacity =>
                size(queues[<<p, "None">>]) <= net.places[p].capacity

\* the operations of the calls made so far, in order
Ops(c) == [i \in 1..Len(c) |-> c[i].op]

\* C16: on entry(entrypoint) -> mid(plain) -> exit(exit_logger), after one
\* token injected at entry and two ticks: entry and mid list no tokens,
\* transitions_fired is 2 and the exit counter is 1
C16_LinearPipeline ==
    (/\ net = NetLinear
     /\ Ops(calls) = <<"inject_token", "tick", "tick">>
     /\ calls[1].arg = "entry") =>
        /\ getPlaceTokens(net, queues, "entry") = <<>>
        /\ getPlaceTokens(net, queues, "mid") = <<>>
        /\ stats.transitionsFired = 2
        /\ exitCount["exit"] = 1

\* C18: a token injected after register_action(name, invoker) was called on the
\* loaded controller is not routed to the error sub-queue of an ActionPlace that
\* refers to the name as having no invoker (that is, with no action ever
\* started on the executor)
C18_RegisterBinds ==
    \A i, j \in 1..Len(calls) :
        (/\ i < j
         /\ calls[i].op = "register_action"
         /\ calls[j].op = "inject_token"
         /\ calls[j].ret # 0) =>
            \A p \in DOMAIN net.places :
                (net.places[p].type = "action" /\ net.places[p].actionId = calls[i].arg) =>
                    ~(/\ calls[j].token \in TokensOf(queues[<<p, "Error">>])
                      /\ execNextId = FirstId)

\* C19: inject_token returns 0 and changes nothing a caller can read when the
\* place is unknown, is not an entrypoint, the validator rejects the token or
\* the entrypoint's main queue is at capacity; otherwise it returns the id of
\* the one entry added to the entrypoint's main queue, and injected-count and
\* tokens_processed both grow by one
C19_InjectEffect ==
    LastCall("inject_token") =>
        LET c == Last(calls)
            p == c.arg
            b == c.before
            rejected ==
                \/ p \notin DOMAIN net.places
                \/ net.places[p].type # "entrypoint"
                \/ net.places[p].hasValidator /\ ~c.valid
                \/ /\ net.places[p].capacity # NoCapacity
                   /\ Len(b.queues[<<p, "None">>].queue_) >= net.places[p].capacity
        IN IF rejected
           THEN c.ret = 0 /\ Observed = b
           ELSE /\ c.ret # 0
                /\ queues[<<p, "None">>].queue_ =
                      Append(b.queues[<<p, "None">>].queue_,
                             [id |-> c.ret, token |-> c.token, locked |-> FALSE])
                /\ \A k \in QKeys \ {<<p, "None">>} : queues[k] = b.queues[k]
                /\ injectedCount = [b.injectedCount EXCEPT ![p] = @ + 1]
                /\ stats = [b.stats EXCEPT !.tokensProcessed = @ + 1]
                /\ exitCount = b.exitCount /\ inFlight = b.inFlight

\* an injection turned away by an entrypoint at capacity, after one that was
\* taken
C19_Witness ==
    /\ LastCall("inject_token")
    /\ Last(calls).ret = 0
    /\ Last(calls).arg \in DOMAIN net.places
    /\ net.places[Last(calls).arg].type = "entrypoint"
    /\ \E i \in 1..(Len(calls) - 1) : calls[i].op = "inject_token" /\ calls[i].ret # 0

\* the tokens a place holds: its main queue and, with sub-queues enabled, its
\* five sub-queues
HeldAt(n, qs, p) ==
    TokensOf(qs[<<p, "None">>])
      \cup (IF n.places[p].hasSubplaces
            THEN UNION {TokensOf(qs[<<p, sub>>]) : sub \in Subplaces \ {"None"}}
            ELSE {})

\* C20: get_place_tokens lists exactly the tokens the place holds, one entry
\* each, the main sub-queue included, and nothing for an unknown place
C20_ListsAllTokens ==
    \A p \in PlaceIds \cup CallTargets :
        IF p \in DOMAIN net.places
        THEN /\ {e[2] : e \in Range(getPlaceTokens(net, queues, p))} = HeldAt(net, queues, p)
             /\ Len(getPlaceTokens(net, queues, p)) = tokenCount(net, queues, p)
        ELSE getPlaceTokens(net, queues, p) = <<>>

\* the sub-queues of the wait place that hold the token
WaitSubs(tok) == {sub \in Subplaces : tok \in TokensOf(queues[<<"wait", sub>>])}

\* C17: for every token handed to a WaitWithTimeoutPlace, tick moves it to
\* success exactly when a condition is set and returned true, whatever the
\* deadline; otherwise to failure exactly when the clock had reached the
\* deadline, with the timeout callback run once if one is set; otherwise it
\* stays in main. No token is in failure before its deadline and none is
\* moved twice
C17_WaitDecision ==
    \A tok \in TokenIds :
        LET lg == waitLog[tok]
            cfg == net.places["wait"]
        IN lg.entered =>
           /\ Len(lg.movedTo) <= 1
           /\ WaitSubs(tok) \subseteq (IF lg.movedTo = <<>> THEN {"Main"} ELSE {lg.movedTo[1]})
           /\ lg.movedTo # <<>> => WaitSubs(tok) # {}
           /\ lg.movedTo = <<"Success">> =>
                 cfg.hasCondition /\ lg.lastCond /\ lg.movedAt = lg.lastTickAt /\ lg.callbacks = 0
           /\ lg.movedTo = <<"Failure">> =>
                 /\ ~lg.lastCond
                 /\ lg.movedAt = lg.lastTickAt
                 /\ lg.movedAt >= lg.deadline
                 /\ lg.callbacks = IF cfg.hasTimeoutCallback THEN 1 ELSE 0
           /\ (lg.ticked /\ "Main" \in WaitSubs(tok)) =>
                 ~lg.lastCond /\ lg.lastTickAt < lg.deadline /\ lg.callbacks = 0
           /\ ~lg.ticked => lg.movedTo = <<>> /\ lg.callbacks = 0

\* a token moved to success by a tick that came after its deadline, and
\* another moved to failure with the timeout callback run
C17_Witness ==
    \E a, b \in TokenIds :
        /\ waitLog[a].movedTo = <<"Success">> /\ waitLog[a].movedAt > waitLog[a].deadline
        /\ waitLog[b].movedTo = <<"Failure">> /\ waitLog[b].callbacks = 1

\* a Running context whose time since its latest start has reached the timeout
\* when a poll begins; the retry count 2^32 - 1 is left to C5
TimesOut(ctx) == isTimedOut(ctx, now) /\ ctx.policy.maxRetries >= 0
AttemptsRemain(ctx) == ctx.attemptCount <= ctx.policy.maxRetries

\* C29: a poll that finds a Running context timed out with no attempt left
\* finishes it in that poll: the callback runs once with an Error result and
\* the context's state is TimedOut
C29_TimedOutState ==
    [][ExecPoll =>
        \A id \in DOMAIN inFlight :
            (TimesOut(inFlight[id]) /\ ~AttemptsRemain(inFlight[id])) =>
                /\ id \notin DOMAIN inFlight'
                /\ alog'[id].callbacks = alog[id].callbacks + 1
                /\ alog'[id].result = "Error"
                /\ alog'[id].finalState = "TimedOut"]_vars

ArcWeight(n, arcs, k) ==
    SumOver({i \in 1..Len(arcs) : /\ resolvePlace(n, arcs[i]).found
                                  /\ QueueKey(n, resolvePlace(n, arcs[i])) = k},
            LAMBDA i : arcs[i].weight)

\* C26: a successful Net::fire of T takes from the queue of every input arc
\* the arc's weight in unlocked tokens and adds to the queue of every output
\* arc the arc's weight in tokens
C26_FireMovesWeights ==
    [][(fireLog'.count # fireLog.count /\ fireLog'.success) =>
          LET t == net.transitions[fireLog'.ti]
          IN \A k \in QKeys :
                LET delta == ArcWeight(net, t.outputArcs, k) - ArcWeight(net, t.inputArcs, k)
                IN /\ availableCount(queues'[k]) = availableCount(queues[k]) + delta
                   /\ size(queues'[k]) = size(queues[k]) + delta]_vars

\* the step is a recorded tick
IsTickCall == Len(calls') = Len(calls) + 1 /\ calls'[Len(calls')].op = "tick"

\* the transitions whose one input arc reads queue k
ReadersOf(n, k) ==
    {ti \in TransIds(n) :
        /\ Len(n.transitions[ti].inputArcs) = 1
        /\ resolvePlace(n, n.transitions[ti].inputArcs[1]).found
        /\ QueueKey(n, resolvePlace(n, n.transitions[ti].inputArcs[1])) = k}

\* C25: in a tick the poll comes before the behaviours' ticks and these before
\* the transitions: the token of an action that the tick's poll completes with
\* Success, and a waiting token whose deadline the tick finds reached, are in
\* their result sub-queue when the transitions are evaluated, so that the
\* transition reading that sub-queue fires in this tick; an action started by
\* a firing of this tick is not polled in it
C25_TickOrder ==
    [][IsTickCall =>
        /\ \A id \in (DOMAIN inFlight) \ (DOMAIN inFlight') :
              LET p == inFlight[id].place
                  tok == inFlight[id].token
              IN tok \notin TokensOf(queues'[<<p, "Failure">>]) \cup TokensOf(queues'[<<p, "Error">>])
                    => ReadersOf(net, <<p, "Success">>) \subseteq Range(tickLog'.fired)
        /\ \A p \in DOMAIN net.places : \A e \in waiting[p] :
              (e.deadline <= now /\ get(queues[<<p, "Main">>], e.id))
                    => ReadersOf(net, <<p, "Failure">>) \subseteq Range(tickLog'.fired)
        /\ \A id \in (DOMAIN inFlight') \ (DOMAIN inFlight) :
              inFlight'[id].state = "Pending" /\ inFlight'[id].attemptCount = 0]_vars

\* the second tick of a run completes an action with Success and counts its token at the exit place,
\* or times a waiting token out and counts it at the exit place
C25_Witness ==
    /\ LastCall("tick")
    /\ stats.epoch = 2
    /\ exitCount["exit"] = 1
    /\ inFlight = <<>>
    /\ \/ "act" \in DOMAIN net.places /\ execNextId > FirstId
       \/ "wait" \in DOMAIN net.places /\ "entry" \in DOMAIN net.places

\* the transitions with an input arc that reads the main queue of place p
ConsumersOf(n, p) ==
    {ti \in TransIds(n) :
        \E i \in 1..Len(n.transitions[ti].inputArcs) :
            /\ resolvePlace(n, n.transitions[ti].inputArcs[i]).found
            /\ QueueKey(n, resolvePlace(n, n.transitions[ti].inputArcs[i])) = <<p, "None">>}

\* the transitions with an output arc that delivers to place p, no sub-queue
\* named
FeedersOf(n, p) ==
    {ti \in TransIds(n) :
        \E j \in 1..Len(n.transitions[ti].outputArcs) :
            /\ resolvePlace(n, n.transitions[ti].outputArcs[j]).found
            /\ resolvePlace(n, n.transitions[ti].outputArcs[j]).placeId = p
            /\ resolvePlace(n, n.transitions[ti].outputArcs[j]).sub = "None"}

\* C27: when a tick has ended in which a transition delivered to a PlainPlace
\* and no transition reading that place fired, the place's main queue holds a
\* token
C27_PlainKeeps ==
    LastCall("tick") =>
        \A p \in DOMAIN net.places :
            (/\ net.places[p].type = "plain"
             /\ FeedersOf(net, p) \cap Range(tickLog.fired) # {}
             /\ ConsumersOf(net, p) \cap Range(tickLog.fired) = {})
                => size(queues[<<p, "None">>]) >= 1

\* the places that hold token tok in a queue
HoldersOf(tok) == {k \in QKeys : tok \in TokensOf(queues[k])}

\* C28: of the N tokens a ResourcePoolPlace was built with, each is in the pool
\* or held elsewhere in the net, after any sequence of ticks
C28_PoolConserved ==
    \A p \in DOMAIN net.places :
        net.places[p].type = "resource_pool" =>
            \A i \in 1..net.places[p].poolSize :
                \/ HoldersOf(PoolToken(i)) # {}
                \/ \E id \in DOMAIN inFlight : inFlight[id].token = PoolToken(i)

\* the result an exception caught from an invoker would be folded into
ThrownResult == [status |-> "Error", message |-> "thrown"]

\* C23: a poll in which an invoker throws returns normally, and the context of
\* that invoker has an Error with the thrown message as its last result: it is
\* Pending for a retry, or it left the executor with one callback and its token
\* in the error sub-queue
C23_ThrowCaught ==
    [][ExecPollThrows =>
        LET id == calls'[1].id
        IN /\ calls'[1].ret = "returned"
           /\ IF id \in DOMAIN inFlight'
              THEN /\ inFlight'[id].lastResult = ThrownResult
                   /\ inFlight'[id].state = "Pending"
              ELSE /\ alog'[id].callbacks = 1
                   /\ alog'[id].result = "Error"
                   /\ inFlight[id].token \in TokensOf(queues'[<<inFlight[id].place, "Error">>])]_vars

\* C21: stats(), get_place_tokens() and register_action() never run while a
\* thread is inside a tick: the last such call found no tick under way
C21_AtomicReads ==
    thr.obs.op \in {"stats", "get_place_tokens", "register_action"} => thr.obs.phase = "none"

\* C22: at most one thread is inside processTick and it holds the mutex; the
\* queues and the injected counts change only by a step of the thread that is
\* inside a tick, or while no thread is inside one (inject_token, load_config)
C22_MutualExclusion ==
    /\ [](\A h1, h2 \in Threads : (Inside(thr, h1) /\ Inside(thr, h2)) => h1 = h2)
    /\ [](\A h \in Threads : Inside(thr, h) => thr.mutex = h)
    /\ [][(queues' # queues \/ injectedCount' # injectedCount) =>
            \/ \A h \in Threads : ~Inside(thr, h)
            \/ \E h \in Threads :
                  Inside(thr, h) /\ thr.mutex = h /\ thr'.pc[h] # thr.pc[h]]_vars

\* the caller is inside a tick after an injection while the loop waits for the
\* mutex
C22_Witness ==
    /\ Inside(thr, "client")
    /\ thr.pc["loop"] = "lock"
    /\ nextTok > 1

\* the steps state_ takes
LifecycleEdges ==
    {<<"Stopped", "Starting">>, <<"Starting", "Running">>, <<"Running", "Stopping">>,
     <<"Stopping", "Stopped">>}

\* C24: the state goes Stopped, Starting, Running, Stopping, Stopped and in no
\* other way; while it is Running the loop thread runs; the loop takes a tick
\* only while the state is Running or Stopping, so that stop() returns after
\* the loop has finished its tick and no tick of the loop follows; the counters
\* are reset by no start() but the one that found the state Stopped; a start()
\* that finds another state and a stop() that finds the state not Running
\* change nothing
C24_Lifecycle ==
    /\ [](state \in {"Stopped", "Starting"} => thr.pc["loop"] \in {"none", "done"})
    /\ [](state = "Running" => thr.pc["loop"] \in {"check", "lock", "poll", "place", "fire"})
    /\ [][/\ state' # state => <<state, state'>> \in LifecycleEdges
          /\ thr'.pc["loop"] # thr.pc["loop"] =>
                IF thr'.pc["loop"] = "check" /\ ~Inside(thr, "loop")
                THEN state = "Starting" /\ state' = "Running"
                ELSE state \in {"Running", "Stopping"} /\ state' = state
          /\ stats'.epoch < stats.epoch => state = "Starting"
          /\ (thr'.obs # thr.obs /\ thr'.obs.op \in {"start", "stop"}) =>
                /\ Observed' = Observed
                /\ state' = state
                /\ thr'.pc = thr.pc
                /\ state # (IF thr'.obs.op = "start" THEN "Stopped" ELSE "Running")
          /\ (state = "Stopping" /\ state' = "Stopped") => thr.pc["loop"] = "done"]_vars

\* the controller is Stopped again after a start() and ticks, the loop thread
\* joined
C24_Witness ==
    /\ state = "Stopped"
    /\ thr.pc["loop"] = "done"
    /\ stats.epoch >= 1

\* ------------- SpecReenter: SpecExec with completion callbacks that call
\* inFlightCount() on the executor before they route the token
\* what locking a std::mutex that the calling thread owns can do: block for
\* ever, fail with resource_deadlock_would_occur, or go on as if it were free
RelockOutcomes == {"blocked", "threw", "returned"}

\* poll whose k-th completion callback finds the relock not going on: the
\* contexts are all stepped, the callbacks before the k-th run and their
\* contexts are erased, the k-th context is marked as called back and its
\* callback is entered but does not reach the routing, and nothing is erased
\* after it
pollReenters(X, order, res, t, k) ==
    LET p == PollProcess(X, order, 1, res, t, <<>>)
        Y == PollComplete(p.X, SubSeq(p.completed, 1, k - 1), 1)
        id == p.completed[k]
        ctx == Y.inFlight[id]
    IN [Y EXCEPT !.inFlight[id].callbackInvoked = TRUE,
                 !.alog[id].callbacks = @ + 1,
                 !.alog[id].result = ctx.lastResult.status,
                 !.alog[id].finalState = ctx.state]

\* the executor's mutex is free: no poll is blocked in a callback
ExecutorFree == IF calls = <<>> THEN TRUE ELSE calls[1].ret # "blocked"

\* ActionExecutor::poll; the completion loop holds mutex_ while it calls
\* invokeCallback, so the callback's inFlightCount() locks a mutex its thread
\* owns; calls keeps the way the last poll with a callback ended
ExecPollReenters ==
    /\ ExecutorFree
    /\ \A id \in DOMAIN inFlight : alog[id].calls < MaxCalls
    /\ \E order \in Orders(DOMAIN inFlight), res \in PollResults(inFlight, now) :
         LET completed == PollProcess(CurX, order, 1, res, now, <<>>).completed
             \* invokeCallback returns at once for a context already called back
             entering == {k \in 1..Len(completed) : ~inFlight[completed[k]].callbackInvoked}
         IN IF entering = {}
            THEN /\ SetX(poll(CurX, order, res, now))
                 /\ UNCHANGED calls
            ELSE \E k \in entering, out \in RelockOutcomes :
                    IF out = "returned"
                    THEN /\ SetX(poll(CurX, order, res, now))
                         /\ calls' = <<[op |-> "poll", ret |-> out, id |-> completed[k]]>>
                    ELSE /\ SetX(pollReenters(CurX, order, res, now, k))
                         /\ calls' = <<[op |-> "poll", ret |-> out, id |-> completed[k]]>>
    /\ UNCHANGED <<net, state, ticks, lastFiredEpoch, stats, injectedCount, now, nextTok, accepted,
                   tickLog, fireLog, actionInvokers, thr>>

\* startAction locks mutex_ too
ReenterTokenEnter ==
    /\ ExecutorFree
    /\ ExecTokenEnter

NextReenter ==
    \/ ReenterTokenEnter
    \/ ExecPollReenters
    \/ AdvanceClock

SpecReenter == InitExec /\ [][NextReenter]_vars

\* C35: a poll whose completion callback calls back into the executor returns
\* with the callback done: the token is routed and the context is removed
C35_CallbackReenters ==
    \A id \in ActionIds :
        alog[id].callbacks = 1 =>
            /\ id \notin DOMAIN inFlight
            /\ Len(alog[id].routed) = 1
            /\ ExecutorFree

\* ------------- SpecLive: the executor alone, polled for ever by a caller
\* whose clock keeps advancing; actions are started on it with or without an
\* invoker
\* the counts of invoker calls are not kept: an invoker can be called any
\* number of times
ForgetCounts(X) ==
    [X EXCEPT !.inFlight = ForgetCalls(@),
              !.alog = [id \in ActionIds |->
                          [@[id] EXCEPT !.calls = 0, !.finished = 0, !.onlyError = TRUE,
                                        !.attempts = 0]]]

\* ActionExecutor::startAction, the invoker being set or empty; contexts do not
\* read each other (processAction works on its context alone), so one action
\* is followed
LiveStart(hasInvoker) ==
    /\ execNextId = FirstId
    /\ SetX(startAction(CurX, "act", nextTok, net.places["act"].policy, hasInvoker))
    /\ nextTok' = nextTok + 1
    /\ UNCHANGED <<net, state, ticks, lastFiredEpoch, stats, injectedCount, now, accepted,
                   tickLog, fireLog, actionInvokers, thr, calls>>

\* ActionExecutor::poll
LivePoll ==
    /\ \E order \in Orders(DOMAIN inFlight), res \in PollResults(inFlight, now) :
           SetX(ForgetCounts(poll(CurX, order, res, now)))
    /\ UNCHANGED <<net, state, ticks, lastFiredEpoch, stats, injectedCount, now, nextTok, accepted,
                   tickLog, fireLog, actionInvokers, thr, calls>>

\* time passes for as long as a context waits for a clock reading
LiveClock ==
    /\ \E id \in DOMAIN inFlight : Deadline(inFlight[id]) > now
    /\ now' = now + 1
    /\ UNCHANGED <<net, state, ticks, queues, lastFiredEpoch, inFlight, execNextId, stats,
                   exitCount, exitLog, injectedCount, nextTok, accepted, alog, tickLog, fireLog,
                   waiting, actionInvokers, thr, waitLog, calls>>

NextLive ==
    \/ \E hasInvoker \in BOOLEAN : LiveStart(hasInvoker)
    \/ LivePoll
    \/ LiveClock

\* whether processAction or the completion loop changes this context at time t
PollActs(ctx, t) ==
    CASE ctx.state = "Pending" -> isReadyForRetry(ctx, t) \/ ctx.attemptCount = 0
      [] ctx.state = "Running" -> isTimedOut(ctx, t) \/ ctx.hasInvoker
      [] OTHER -> TRUE

\* a poll can change the state: ENABLED <<LivePoll>>_vars, written out
PollEnabled == \E id \in DOMAIN inFlight : PollActs(inFlight[id], now)

\* PollEnabled is ENABLED <<LivePoll>>_vars in every state of SpecLive
PollEnabledIsEnabled == PollEnabled <=> ENABLED <<LivePoll>>_vars

\* poll is called again and again, and the clock does not stop: weak fairness
\* of both, WF_vars(LivePoll) being spelled out with PollEnabled
SpecLive ==
    /\ InitExec /\ [][NextLive]_vars
    /\ ([]<>~PollEnabled \/ []<><<LivePoll>>_vars)
    /\ WF_vars(LiveClock)

\* ------------- SpecBypass: the controller on nets that deliver to a wait
\* place, by an arc to the place and by an arc to its main sub-queue
\* entry -> wait::main; wait::failure -> exit
NetWaitMain(timeout) ==
    [places |-> [p \in {"entry", "wait", "exit"} |->
                    CASE p = "entry" -> Entrypoint
                      [] p = "wait" -> [PlaceCfg("wait_with_timeout", FALSE, NoPolicy, 0)
                                           EXCEPT !.waitTimeout = timeout]
                      [] OTHER -> ExitLogger],
     transitions |-> <<Trans(DefaultPriority, <<Arc("entry", "")>>, <<Arc("wait", "main")>>),
                       Trans(DefaultPriority, <<Arc("wait", "failure")>>, <<Arc("exit", "")>>)>>]

InitBypass == Loaded({NetWait(1), NetWaitMain(1)})

NextBypass ==
    \/ \E p \in InjectTargets : InjectToken(p)
    \/ Tick
    \/ AdvanceClock

SpecBypass == InitBypass /\ [][NextBypass]_vars

\* ------------- SpecRace: start() and stop() called from two threads; the
\* test of state_ and the assignment that follows it are two steps, as they
\* are two atomic operations in the code; calls lists the loop threads created
Starters == Threads \ {"loop"}

RaceUnchanged ==
    UNCHANGED <<net, queues, lastFiredEpoch, inFlight, execNextId, exitCount, exitLog,
                injectedCount, now, ticks, nextTok, accepted, alog, tickLog, fireLog, waiting,
                actionInvokers, waitLog>>

\* std::terminate has been called: a joinable std::thread was assigned to
Terminated == \E i \in 1..Len(calls) : calls[i].terminate

\* runThread_.joinable(): the thread last assigned has not been joined
Joinable == calls # <<>> /\ ~calls[Len(calls)].joined

\* start(): if (state_ != Stopped) return
RaceStartCheck(u) ==
    /\ ~Terminated
    /\ Len(calls) < MaxTrace
    /\ thr.pc[u] = "idle"
    /\ state = "Stopped"
    /\ thr' = [thr EXCEPT !.pc[u] = "checked"]
    /\ UNCHANGED <<state, stats, calls>>
    /\ RaceUnchanged

\* start(): state_ = Starting
RaceStartSet(u) ==
    /\ ~Terminated
    /\ thr.pc[u] = "checked"
    /\ state' = "Starting"
    /\ thr' = [thr EXCEPT !.pc[u] = "start"]
    /\ UNCHANGED <<stats, calls>>
    /\ RaceUnchanged

\* start(), the rest: the counters are reset, state_ = Running, a thread is
\* created on runLoop and move-assigned to runThread_
RaceStartFinish(u) ==
    /\ ~Terminated
    /\ thr.pc[u] = "start"
    /\ stats' = [epoch |-> 0, transitionsFired |-> 0, tokensProcessed |-> 0]
    /\ state' = "Running"
    /\ calls' = Append(calls, [by |-> u, alive |-> TRUE, joined |-> FALSE,
                                terminate |-> Joinable])
    /\ thr' = [thr EXCEPT !.pc[u] = "idle"]
    /\ RaceUnchanged

\* runLoop of the i-th thread: while (state_ == Running), else it returns
RaceLoopExit(i) ==
    /\ ~Terminated
    /\ i \in 1..Len(calls)
    /\ calls[i].alive
    /\ state # "Running"
    /\ calls' = [calls EXCEPT ![i].alive = FALSE]
    /\ UNCHANGED <<state, stats, thr>>
    /\ RaceUnchanged

\* stop(): if (state_ != Running) return
RaceStopCheck(u) ==
    /\ ~Terminated
    /\ thr.pc[u] = "idle"
    /\ state = "Running"
    /\ thr' = [thr EXCEPT !.pc[u] = "stopping"]
    /\ UNCHANGED <<state, stats, calls>>
    /\ RaceUnchanged

\* stop(): state_ = Stopping
RaceStopSet(u) ==
    /\ ~Terminated
    /\ thr.pc[u] = "stopping"
    /\ state' = "Stopping"
    /\ thr' = [thr EXCEPT !.pc[u] = "join"]
    /\ UNCHANGED <<stats, calls>>
    /\ RaceUnchanged

\* stop(), the rest: runThread_ is joined if joinable, state_ = Stopped
RaceStopJoin(u) ==
    /\ ~Terminated
    /\ thr.pc[u] = "join"
    /\ Joinable => ~calls[Len(calls)].alive
    /\ calls' = IF Joinable THEN [calls EXCEPT ![Len(calls)].joined = TRUE] ELSE calls
    /\ state' = "Stopped"
    /\ thr' = [thr EXCEPT !.pc[u] = "idle"]
    /\ UNCHANGED stats
    /\ RaceUnchanged

NextRace ==
    \/ \E u \in Starters : RaceStartCheck(u)
    \/ \E u \in Starters : RaceStartSet(u)
    \/ \E u \in Starters : RaceStartFinish(u)
    \/ \E i \in 1..MaxTrace : RaceLoopExit(i)
    \/ \E u \in Starters : RaceStopCheck(u)
    \/ \E u \in Starters : RaceStopSet(u)
    \/ \E u \in Starters : RaceStopJoin(u)

SpecRace == InitThreads /\ [][NextRace]_vars

\* C31: a step that turns a context Cancelled keeps its last result; the poll
\* that finds a context Cancelled does not call its invoker, invokes its
\* callback once with that last result and removes it; cancel of an id that is
\* not in flight changes nothing
C31_CancelObserved ==
    [][/\ \A id \in DOMAIN inFlight :
             (id \in DOMAIN inFlight' /\ inFlight'[id].state = "Cancelled") =>
                 /\ inFlight'[id].lastResult = inFlight[id].lastResult
                 /\ inFlight'[id].invocations = inFlight[id].invocations
                 /\ ~inFlight'[id].callbackInvoked
       /\ ExecPoll =>
             \A id \in DOMAIN inFlight : inFlight[id].state = "Cancelled" =>
                 /\ id \notin DOMAIN inFlight'
                 /\ alog'[id].calls = alog[id].calls
                 /\ alog[id].callbacks = 0
                 /\ alog'[id].callbacks = 1
                 /\ alog'[id].result = inFlight[id].lastResult.status
                 /\ alog'[id].finalState = "Cancelled"
       /\ \A id \in (1..MaxActions) \ DOMAIN inFlight : ExecCancel(id) => UNCHANGED vars]_vars

\* an action cancelled while Running, after its invoker had returned
\* InProgress, has left the executor with one callback
C31_Witness ==
    \E id \in ActionIds :
        /\ alog[id].cancelledIn = "Running"
        /\ alog[id].calls >= 1
        /\ alog[id].callbacks = 1
        /\ alog[id].result = "InProgress"
        /\ id \notin DOMAIN inFlight

\* the main queues of entrypoints that no transition delivers to: within a tick
\* only the transitions reading them change them
SourceKeys(n) ==
    {<<p, "None">> : p \in {q \in DOMAIN n.places :
                              n.places[q].type = "entrypoint" /\ FeedersOf(n, q) = {}}}

\* C32: in one tick (the step that counts one more tick) the transitions that
\* fire are pairwise different and in the sorted order; two that fire and read the same source queue found two
\* unlocked tokens in it, so one disabled by an earlier fire has not fired;
\* transitions_fired grows by the number of fires, each of which is recorded
\* (and its on_transition_fired event emitted) with the tick's epoch
C32_FiresOnce ==
    [][ticks' = ticks + 1 =>
         LET f == tickLog'.fired
         IN /\ \A i, j \in 1..Len(f) : i < j =>
                   /\ f[i] # f[j]
                   /\ ~SortsBefore(net, lastFiredEpoch, f[j], f[i])
                   /\ \A k \in InputKeys(net, net.transitions[f[i]])
                                \cap InputKeys(net, net.transitions[f[j]]) \cap SourceKeys(net) :
                          availableCount(queues[k]) >= 2
            /\ stats'.epoch = stats.epoch + 1
            /\ stats'.transitionsFired = stats.transitionsFired + Len(f)
            /\ \A ti \in TransIds(net) :
                   lastFiredEpoch'[ti] = IF ti \in Range(f) THEN stats'.epoch
                                         ELSE lastFiredEpoch[ti]]_vars

\* a tick has ended in which one of two transitions reading the same queue
\* fired and the other, enabled when the tick began, did not
C32_Witness ==
    /\ Len(tickLog.fired) = 1
    /\ lastFiredEpoch[tickLog.fired[1]] = stats.epoch
    /\ stats.transitionsFired >= 2
    /\ \E pr \in tickLog.contested \cup tickLog.eligible :
          /\ pr[1] \in Range(tickLog.fired) \/ pr[2] \in Range(tickLog.fired)
          /\ ~(pr[1] \in Range(tickLog.fired) /\ pr[2] \in Range(tickLog.fired))

\* ------------------------ SpecExit: ExitLoggerPlaces driven directly, as the
\* place tests drive one: tokens are handed to onTokenEnter or added to the
\* place and found by tick
ExitPlaces == {"exit", "exit2"}

InitExit ==
    /\ InitCommon([places |-> [p \in ExitPlaces |-> ExitLogger], transitions |-> <<>>])
    /\ queues = [k \in QKeys |-> EmptyQueue]
    /\ nextTok = 1
    /\ accepted = {}

ExitUnchanged ==
    UNCHANGED <<net, state, ticks, lastFiredEpoch, stats, injectedCount, now, accepted,
                tickLog, fireLog, actionInvokers, thr, calls>>

\* ExitLoggerPlace::onTokenEnter
ExitTokenEnter(p) ==
    /\ nextTok <= MaxTokens
    /\ SetX(onTokenEnter(CurX, net, p, nextTok))
    /\ nextTok' = nextTok + 1
    /\ ExitUnchanged

\* place.addToken: the token waits in the main queue for the next tick
ExitAddToken(p) ==
    /\ nextTok <= MaxTokens
    /\ queues' = [queues EXCEPT ![<<p, "None">>] = addToken(net.places[p], @, nextTok).Q]
    /\ nextTok' = nextTok + 1
    /\ UNCHANGED <<inFlight, execNextId, exitCount, exitLog, alog, waiting, waitLog>>
    /\ ExitUnchanged

\* ExitLoggerPlace::tick
ExitTickCall(p) ==
    /\ SetX(ExitTick(CurX, p))
    /\ UNCHANGED nextTok
    /\ ExitUnchanged

NextExit ==
    \/ \E p \in ExitPlaces : ExitTokenEnter(p)
    \/ \E p \in ExitPlaces : ExitAddToken(p)
    \/ \E p \in ExitPlaces : ExitTickCall(p)

SpecExit == InitExit /\ [][NextExit]_vars

\* the tokens an exit place has handed to its logger, and those of all places
LoggedAt(p) == Range(exitLog[p])
Logged == UNION {LoggedAt(p) : p \in ExitPlaces}

\* C33: the exit counter of a place equals the number of logger invocations;
\* no token is logged twice, at one place or at two; a token handed to a place
\* is either logged and in no queue, or waits unlogged in the main queue for
\* the tick; onTokenEnter stores nothing, and tick leaves the main queue empty
\* with the counter and the logger raised once for each token it held
C33_ExitDestroys ==
    /\ [](/\ \A p \in ExitPlaces :
               /\ exitCount[p] = Len(exitLog[p])
               /\ \A i, j \in 1..Len(exitLog[p]) : i # j => exitLog[p][i] # exitLog[p][j]
          /\ \A p, q \in ExitPlaces : p # q => LoggedAt(p) \cap LoggedAt(q) = {}
          /\ \A tok \in 1..(nextTok - 1) :
                (tok \in Logged) # (\E p \in ExitPlaces : tok \in TokensOf(queues[<<p, "None">>]))
          /\ \A tok \in Logged, k \in QKeys : tok \notin TokensOf(queues[k]))
    /\ [][\A p \in ExitPlaces :
            /\ ExitTokenEnter(p) =>
                  /\ exitCount'[p] = exitCount[p] + 1
                  /\ exitLog'[p] = Append(exitLog[p], nextTok)
                  /\ queues' = queues
            /\ ExitTickCall(p) =>
                  /\ size(queues'[<<p, "None">>]) = 0
                  /\ exitCount'[p] = exitCount[p] + size(queues[<<p, "None">>])
                  /\ LoggedAt(p)' = LoggedAt(p) \cup TokensOf(queues[<<p, "None">>])]_vars

\* one place has logged a token handed to onTokenEnter and a token its tick
\* found in the main queue
C33_Witness ==
    \E p \in ExitPlaces :
        /\ exitCount[p] = 2
        /\ exitLog[p] = <<1, 2>>
        /\ size(queues[<<p, "None">>]) = 1
        /\ nextTok = 4

\* the invocations of the callback that setOnTokenEnter has stored in
\* onTokenEnter_, as (place, token) pairs: injectToken only logs and counts,
\* processNewTokensAtPlaces calls the place behaviour's onTokenEnter, and no
\* statement of the controller reads the member, so no call adds an invocation
TokenEnterEvents == <<>>

\* C34: every token accepted by inject_token has been announced, with the
\* place it entered, by one invocation of the on_token_enter callback
C34_EnterEventEmitted ==
    \A tok \in accepted \cap 1..MaxTokens :
        \E i \in 1..Len(TokenEnterEvents) :
            /\ TokenEnterEvents[i].token = tok
            /\ TokenEnterEvents[i].place \in {p \in DOMAIN net.places :
                                                 net.places[p].type = "entrypoint"}

\* C36: a fire of a transition that isEnabled reported enabled on the same
\* queues succeeds
C36_EnabledFires ==
    (fireLog.count > 0 /\ fireLog.enabled) => fireLog.success

\* C37: an action that is in flight eventually has left the executor with its
\* callback invoked once
C37_Terminates ==
    \A id \in ActionIds :
        (id \in DOMAIN inFlight) ~> (id \notin DOMAIN inFlight /\ alog[id].callbacks = 1)

\* an action started without an invoker has left the executor after its last
\* attempt timed out, retries included
C37_Witness ==
    \E id \in ActionIds :
        /\ alog[id].started
        /\ id \notin DOMAIN inFlight
        /\ alog[id].callbacks = 1
        /\ alog[id].finalState = "Error"
        /\ net.places["act"].policy.timeout = MaxTime + 1
        /\ now >= 2 * (MaxTime + 1)

\* C38: every token in the main sub-queue of a WaitWithTimeoutPlace has a
\* deadline record, by which a tick will move it to success or failure
C38_MainHasDeadline ==
    \A p \in DOMAIN net.places :
        net.places[p].type = "wait_with_timeout" =>
            \A i \in 1..Len(queues[<<p, "Main">>].queue_) :
                queues[<<p, "Main">>].queue_[i].id \in WaitIds(waiting, p)

\* C39: two start() calls are never both past the test of state_ against
\* Stopped, and at most one loop thread is alive at any moment
C39_OneLoopThread ==
    /\ Cardinality({u \in Starters : thr.pc[u] \in {"checked", "start"}}) <= 1
    /\ Cardinality({i \in 1..Len(calls) : calls[i].alive}) <= 1

\* C40: for a running action and either outcome of its attempt, canRetry
\* permits the retry exactly when attempt_count < max_retries + 1 as numbers
\* (that is, attempt_count <= max_retries) and the flag of the outcome is set
C40_CanRetryExact ==
    \A id \in DOMAIN inFlight : \A st \in {"Error", "Failed"} :
        LET ctx == [inFlight[id] EXCEPT !.state = st]
            flag == IF st = "Error" THEN ctx.policy.retryOnError ELSE ctx.policy.retryOnFailure
        IN inFlight[id].state = "Running" =>
               (canRetry(ctx) <=> (flag /\ U32Geq(ctx.policy.maxRetries, ctx.attemptCount)))
====
